---- MODULE Spec2Model ----
(***************************************************************************)
(* Tax-lot accounting engine of src/src/calculate.py: TaxLot,               *)
(* AssetInventory (add_lot, remove_amount) and TaxCalculator                *)
(* (calculate_taxes and the per-record handlers).                           *)
(*                                                                         *)
(* Numbers.  The code computes in binary floating point.  The model        *)
(* computes exactly, on a grid: an amount is an integer number of          *)
(* AmountUnit = 0.5e-8 coins, so that the code's tolerance 1e-8 is EPS = 2  *)
(* units and amounts below, at and above the tolerance all exist; a money  *)
(* value is an integer number of 1/CostUnit currency units, CostUnit being *)
(* a common multiple of every amount a lot can have, so that every         *)
(* quotient the code forms (cost_basis / amount, proceeds / amount) is     *)
(* exact.  Rounding error of the floats is therefore not modelled.         *)
(* Time is counted in whole days.                                          *)
(***************************************************************************)
EXTENDS Integers, Sequences, FiniteSets, TLC

VARIABLES
    method,                 \* TaxCalculator.method / AssetInventory.method
    inventories,            \* TaxCalculator.inventories: asset -> AssetInventory
    gains_losses,           \* TaxCalculator.gains_losses
    income_events,          \* TaxCalculator.income_events
    total_short_term_gains, \* TaxCalculator.total_short_term_gains
    total_long_term_gains,  \* TaxCalculator.total_long_term_gains
    total_income,           \* TaxCalculator.total_income
    errors,                 \* ids of the rows whose processing raised (logged at line 169)
    pc,                     \* position inside calculate_taxes
    df,                     \* the data frame read from input_file, in file order
    order,                  \* the index of df after sort_values('timestamp')
    pos,                    \* number of rows the loop at line 165 has iterated over
    prices,                 \* history: what fetch_price returned for each row (0: not called or None)
    consumed,               \* history: per gains_losses entry, the transaction_id of the lot taken from
    run,                    \* which call of calculate_taxes(input_file, ...) is running
    first_run,              \* history: what the first call returned
    trail,                  \* history: per iteration of the loop, the row's inventory before and after
    inventory,              \* a single AssetInventory driven directly (inventory-level runs)
    calls,                  \* history: the add_lot / remove_amount calls made on `inventory`
    columns,                \* df.columns of the table handed to the validator or the normalizer
    reports,                \* history: what each call of the validator returned
    output_file,            \* the file normalize_csv wrote at output_file, if any
    call_args,              \* the arguments of the function under call (function-level runs)
    call_result             \* what that call returned

vars == <<method, inventories, gains_losses, income_events, total_short_term_gains,
          total_long_term_gains, total_income, errors, pc, df, order, pos, prices,
          consumed, run, first_run, trail, inventory, calls, columns, reports,
          output_file, call_args, call_result>>

validator_vars == <<columns, reports, output_file, call_args, call_result>>

engine_vars == <<inventories, gains_losses, income_events, total_short_term_gains,
                 total_long_term_gains, total_income, errors, pc, df, order, pos,
                 prices, consumed, run, first_run, trail>>

(***************************************************************************)
(* Program constants and bounds                                            *)
(***************************************************************************)
\* the tolerance 1e-8 of remove_amount, in amount units of 0.5e-8
EPS == 2

\* timedelta(days=365), the short-term / long-term threshold
SHORT_TERM_DAYS == 365

\* rows of one input file in the engine runs
MaxRows == 3

\* calls made on one inventory in the inventory-level runs
MaxCalls == 4

\* rows of one input file in the runs that start from the unsorted file
MaxFileRows == 3

Methods == {"fifo", "lifo", "hifo"}

\* amounts (in units of 0.5e-8): below, at and above the tolerance
Amounts == {1, 2, 3, 5}

RECURSIVE Gcd(_, _)
Gcd(a, b) == IF b = 0 THEN a ELSE Gcd(b, a % b)

RECURSIVE LcmOf(_)
LcmOf(S) ==
    IF S = {} THEN 1
    ELSE LET x == CHOOSE y \in S : TRUE
             r == LcmOf(S \ {x})
         IN (x * r) \div Gcd(x, r)

\* money values are counted in 1/CostUnit: every division by an amount is exact
CostUnit == LcmOf(Amounts)

(***************************************************************************)
(* TaxLot                                                                  *)
(***************************************************************************)
\* unit costs are kept as exact fractions <<numerator, denominator>>, denominator > 0
UnitCostGE(u, v) == u[1] * v[2] >= v[1] * u[2]

TaxLot(amount, cost_basis, acquisition_date, transaction_id) ==
    [amount           |-> amount,
     cost_basis       |-> cost_basis,
     acquisition_date |-> acquisition_date,
     transaction_id   |-> transaction_id,
     unit_cost        |-> IF amount > 0 THEN <<cost_basis, amount>> ELSE <<0, 1>>]

\* (c / a) * x, the exact value of the float expression
MulDiv(c, a, x) == (c * x) \div a

(***************************************************************************)
(* AssetInventory                                                          *)
(***************************************************************************)
AssetInventory(asset, m) ==
    [asset |-> asset, lots |-> <<>>, total_amount |-> 0, total_cost_basis |-> 0]

\* list.sort(key=lambda x: x.unit_cost, reverse=True): a stable sort, highest first
RECURSIVE SortByUnitCost(_)
SortByUnitCost(s) ==
    IF Len(s) <= 1 THEN s
    ELSE LET rest == SortByUnitCost(SubSeq(s, 1, Len(s) - 1))
             x    == s[Len(s)]
             k    == Cardinality({i \in 1..Len(rest) : UnitCostGE(rest[i].unit_cost, x.unit_cost)})
         IN SubSeq(rest, 1, k) \o <<x>> \o SubSeq(rest, k + 1, Len(rest))

\* an add_lot that leaves the cost of the lot out of the aggregate
add_lot_nocost(inv, m, lot) ==
    [inv EXCEPT
        !.lots = IF m \in {"fifo", "lifo"} THEN Append(@, lot)
                 ELSE IF m = "hifo" THEN SortByUnitCost(Append(@, lot))
                 ELSE @,
        !.total_amount = @ + lot.amount]

\* an add_lot that appends under HIFO without sorting
add_lot_unsorted(inv, m, lot) ==
    [inv EXCEPT
        !.lots = IF m \in {"fifo", "lifo", "hifo"} THEN Append(@, lot) ELSE @,
        !.total_amount = @ + lot.amount,
        !.total_cost_basis = @ + lot.cost_basis]

add_lot(inv, m, lot) ==
    [inv EXCEPT
        !.lots = IF m \in {"fifo", "lifo"} THEN Append(@, lot)
                 ELSE IF m = "hifo" THEN SortByUnitCost(Append(@, lot))
                 ELSE @,
        !.total_amount = @ + lot.amount,
        !.total_cost_basis = @ + lot.cost_basis]

\* a plausible slip: every method pops the front lot
PopLot_front(lots, m) ==
    [lot |-> Head(lots), rest |-> Tail(lots)]

\* the lot the loop pops under each method, and the lots left
PopLot(lots, m) ==
    IF m = "lifo"
    THEN [lot |-> lots[Len(lots)], rest |-> SubSeq(lots, 1, Len(lots) - 1)]
    ELSE [lot |-> Head(lots), rest |-> Tail(lots)]

\* a put-back that loses the residual of a split lot
PutBack_drop(rest, m, lot) ==
    rest

\* the residual of a split lot goes back where it was popped from
PutBack(rest, m, lot) ==
    IF m = "lifo" THEN Append(rest, lot) ELSE <<lot>> \o rest

\* a loop pass that hands the whole cost of a lot to the part taken from it
RemoveStep_fullcost(s, m) ==
    LET p   == PopLot(s.lots, m)
        lot == p.lot
    IN IF lot.amount <= s.remaining_to_remove
       THEN [lots               |-> p.rest,
             removed_lots        |-> Append(s.removed_lots, [lot |-> lot, amount |-> lot.amount]),
             remaining_to_remove |-> s.remaining_to_remove - lot.amount,
             total_amount        |-> s.total_amount - lot.amount,
             total_cost_basis    |-> s.total_cost_basis - lot.cost_basis]
       ELSE LET taken_amount == s.remaining_to_remove
                taken_lot    == TaxLot(taken_amount, lot.cost_basis, lot.acquisition_date,
                                       lot.transaction_id)
                residual     == [lot EXCEPT !.amount = @ - taken_amount, !.cost_basis = 0]
            IN [lots               |-> PutBack(p.rest, m, residual),
                removed_lots        |-> Append(s.removed_lots,
                                               [lot |-> taken_lot, amount |-> taken_amount]),
                remaining_to_remove |-> 0,
                total_amount        |-> s.total_amount - taken_amount,
                total_cost_basis    |-> s.total_cost_basis - lot.cost_basis]

\* a loop pass that splits a lot it should take whole, and puts back an empty
\* residual
RemoveStep_split(s, m) ==
    LET p   == PopLot(s.lots, m)
        lot == p.lot
    IN IF lot.amount < s.remaining_to_remove
       THEN [lots               |-> p.rest,
             removed_lots        |-> Append(s.removed_lots, [lot |-> lot, amount |-> lot.amount]),
             remaining_to_remove |-> s.remaining_to_remove - lot.amount,
             total_amount        |-> s.total_amount - lot.amount,
             total_cost_basis    |-> s.total_cost_basis - lot.cost_basis]
       ELSE LET taken_amount == s.remaining_to_remove
                taken_cost   == MulDiv(lot.cost_basis, lot.amount, taken_amount)
                taken_lot    == TaxLot(taken_amount, taken_cost, lot.acquisition_date,
                                       lot.transaction_id)
                residual     == [lot EXCEPT !.amount = @ - taken_amount,
                                            !.cost_basis = @ - taken_cost]
            IN [lots               |-> PutBack(p.rest, m, residual),
                removed_lots        |-> Append(s.removed_lots,
                                               [lot |-> taken_lot, amount |-> taken_amount]),
                remaining_to_remove |-> 0,
                total_amount        |-> s.total_amount - taken_amount,
                total_cost_basis    |-> s.total_cost_basis - taken_cost]

\* one pass of the while loop of remove_amount (lines 80-117); s is the loop state
RemoveStep(s, m) ==
    LET p   == PopLot(s.lots, m)
        lot == p.lot
    IN IF lot.amount <= s.remaining_to_remove
       THEN [lots               |-> p.rest,
             removed_lots        |-> Append(s.removed_lots, [lot |-> lot, amount |-> lot.amount]),
             remaining_to_remove |-> s.remaining_to_remove - lot.amount,
             total_amount        |-> s.total_amount - lot.amount,
             total_cost_basis    |-> s.total_cost_basis - lot.cost_basis]
       ELSE LET taken_amount == s.remaining_to_remove
                taken_cost   == MulDiv(lot.cost_basis, lot.amount, taken_amount)
                taken_lot    == TaxLot(taken_amount, taken_cost, lot.acquisition_date,
                                       lot.transaction_id)
                residual     == [lot EXCEPT !.amount = @ - taken_amount,
                                            !.cost_basis = @ - taken_cost]
            IN [lots               |-> PutBack(p.rest, m, residual),
                removed_lots        |-> Append(s.removed_lots,
                                               [lot |-> taken_lot, amount |-> taken_amount]),
                remaining_to_remove |-> 0,
                total_amount        |-> s.total_amount - taken_amount,
                total_cost_basis    |-> s.total_cost_basis - taken_cost]

RECURSIVE RemoveLoop(_, _)
RemoveLoop(s, m) ==
    IF s.remaining_to_remove > EPS /\ s.lots # <<>>
    THEN RemoveLoop(RemoveStep(s, m), m)
    ELSE s

\* a remove_amount that raises instead of warning at line 75
remove_amount_strict(inv, m, amount) ==
    IF amount <= 0
    THEN [inv |-> inv, removed_lots |-> <<>>, warned |-> FALSE, raised |-> FALSE]
    ELSE IF inv.total_amount < amount - EPS
    THEN [inv |-> inv, removed_lots |-> <<>>, warned |-> TRUE, raised |-> TRUE]
    ELSE LET s == RemoveLoop([lots                |-> inv.lots,
                              removed_lots        |-> <<>>,
                              remaining_to_remove |-> amount,
                              total_amount        |-> inv.total_amount,
                              total_cost_basis    |-> inv.total_cost_basis], m)
         IN [inv |-> [inv EXCEPT !.lots = s.lots,
                                 !.total_amount = s.total_amount,
                                 !.total_cost_basis = s.total_cost_basis],
             removed_lots |-> s.removed_lots,
             warned |-> FALSE,
             raised |-> FALSE]

\* remove_amount: the inventory afterwards, the (lot, amount_taken) list returned,
\* whether the insufficiency warning of line 75 was logged, and whether the call
\* raised (it has no raise statement: it returns on every path)
remove_amount(inv, m, amount) ==
    IF amount <= 0
    THEN [inv |-> inv, removed_lots |-> <<>>, warned |-> FALSE, raised |-> FALSE]
    ELSE LET s == RemoveLoop([lots                |-> inv.lots,
                              removed_lots        |-> <<>>,
                              remaining_to_remove |-> amount,
                              total_amount        |-> inv.total_amount,
                              total_cost_basis    |-> inv.total_cost_basis], m)
         IN [inv |-> [inv EXCEPT !.lots = s.lots,
                                 !.total_amount = s.total_amount,
                                 !.total_cost_basis = s.total_cost_basis],
             removed_lots |-> s.removed_lots,
             warned |-> inv.total_amount < amount - EPS,
             raised |-> FALSE]

(***************************************************************************)
(* TaxCalculator: the per-record handlers.  tc is the calculator's state   *)
(* [inventories, gains_losses, income_events, consumed]; a row is          *)
(* [timestamp, type, base_asset, base_amount, quote_amount, fee_amount];   *)
(* price is what fetch_price returns when the handler calls it, 0 standing *)
(* for None (and for 0.0, which `if price:` treats alike).  Each handler   *)
(* returns [tc, raised]: the state it leaves and whether an exception left *)
(* it.                                                                     *)
(***************************************************************************)
TaxCalculator(m) ==
    [inventories   |-> <<>>,
     gains_losses  |-> <<>>,
     income_events |-> <<>>,
     consumed      |-> <<>>]

Returned(tc) == [tc |-> tc, raised |-> FALSE]

Raised(tc) == [tc |-> tc, raised |-> TRUE]

\* lines 204-205: the asset's inventory is created on first use
EnsureInventory(invs, asset, m) ==
    IF asset \in DOMAIN invs THEN invs
    ELSE [a \in (DOMAIN invs) \cup {asset} |->
             IF a = asset THEN AssetInventory(asset, m) ELSE invs[a]]

\* a cost basis that leaves the purchase fee out
AcquisitionCostBasis_nofee(row, price) ==
    IF row.quote_amount > 0 THEN row.quote_amount
    ELSE IF price # 0 THEN price * row.base_amount
    ELSE 0

\* lines 229-239
AcquisitionCostBasis(row, price) ==
    IF row.quote_amount > 0 THEN row.quote_amount + row.fee_amount
    ELSE IF price # 0 THEN (price * row.base_amount) + row.fee_amount
    ELSE row.fee_amount

_process_acquisition(tc, m, row, transaction_id, price) ==
    LET cost_basis == AcquisitionCostBasis(row, price)
        lot == TaxLot(row.base_amount, cost_basis, row.timestamp, transaction_id)
    IN Returned([tc EXCEPT !.inventories[row.base_asset] = add_lot(@, m, lot)])

\* a gain record that counts a holding of exactly 365 days as short-term
GainRecord_le(row, m, transaction_id, lot, lot_amount, lot_proceeds, note) ==
    LET lot_cost_basis == MulDiv(lot.cost_basis, lot.amount, lot_amount)
        holding_period == row.timestamp - lot.acquisition_date
    IN [date                |-> row.timestamp,
        asset               |-> row.base_asset,
        amount              |-> lot_amount,
        proceeds            |-> lot_proceeds,
        cost_basis          |-> lot_cost_basis,
        gain_loss           |-> lot_proceeds - lot_cost_basis,
        short_term          |-> holding_period <= SHORT_TERM_DAYS,
        holding_period_days |-> holding_period,
        acquisition_date    |-> lot.acquisition_date,
        method              |-> m,
        transaction_id      |-> transaction_id,
        note                |-> note]

\* the gain record of lines 279-291 (and 361-374) for one removed (lot, lot_amount)
GainRecord(row, m, transaction_id, lot, lot_amount, lot_proceeds, note) ==
    LET lot_cost_basis == MulDiv(lot.cost_basis, lot.amount, lot_amount)
        holding_period == row.timestamp - lot.acquisition_date
    IN [date                |-> row.timestamp,
        asset               |-> row.base_asset,
        amount              |-> lot_amount,
        proceeds            |-> lot_proceeds,
        cost_basis          |-> lot_cost_basis,
        gain_loss           |-> lot_proceeds - lot_cost_basis,
        short_term          |-> holding_period < SHORT_TERM_DAYS,
        holding_period_days |-> holding_period,
        acquisition_date    |-> lot.acquisition_date,
        method              |-> m,
        transaction_id      |-> transaction_id,
        note                |-> note]

LotIds(removed_lots) ==
    [i \in 1..Len(removed_lots) |-> removed_lots[i].lot.transaction_id]

\* lines 253-263: the proceeds of a sale, or "skip" when no price is to be had
DisposalProceeds(row, price) ==
    IF row.quote_amount > 0 THEN [skip |-> FALSE, proceeds |-> row.quote_amount - row.fee_amount]
    ELSE IF price # 0 THEN [skip |-> FALSE, proceeds |-> (price * row.base_amount) - row.fee_amount]
    ELSE [skip |-> TRUE, proceeds |-> 0]

_process_disposal(tc, m, row, transaction_id, price) ==
    LET p == DisposalProceeds(row, price)
        r == remove_amount(tc.inventories[row.base_asset], m, row.base_amount)
        records == [i \in 1..Len(r.removed_lots) |->
                       GainRecord(row, m, transaction_id, r.removed_lots[i].lot,
                                  r.removed_lots[i].amount,
                                  MulDiv(p.proceeds, row.base_amount, r.removed_lots[i].amount),
                                  "")]
    IN IF p.skip THEN Returned(tc)
       ELSE IF r.raised THEN Raised(tc)
       ELSE Returned([tc EXCEPT !.inventories[row.base_asset] = r.inv,
                                !.gains_losses = @ \o records,
                                !.consumed = @ \o LotIds(r.removed_lots)])

\* an income handler that values the receipt at the price of one unit
_process_income_unit(tc, m, row, transaction_id, price) ==
    LET income_value == price
        income_record == [date           |-> row.timestamp,
                          asset          |-> row.base_asset,
                          amount         |-> row.base_amount,
                          price          |-> price,
                          income_amount  |-> income_value,
                          type           |-> row.type,
                          transaction_id |-> transaction_id]
        lot == TaxLot(row.base_amount, income_value, row.timestamp, transaction_id)
    IN IF price = 0 THEN Returned(tc)
       ELSE Returned([tc EXCEPT !.income_events = Append(@, income_record),
                                !.inventories[row.base_asset] = add_lot(@, m, lot)])

\* an income handler whose lot carries no cost basis
_process_income_nobasis(tc, m, row, transaction_id, price) ==
    LET income_value == price * row.base_amount
        income_record == [date           |-> row.timestamp,
                          asset          |-> row.base_asset,
                          amount         |-> row.base_amount,
                          price          |-> price,
                          income_amount  |-> income_value,
                          type           |-> row.type,
                          transaction_id |-> transaction_id]
        lot == TaxLot(row.base_amount, 0, row.timestamp, transaction_id)
    IN IF price = 0 THEN Returned(tc)
       ELSE Returned([tc EXCEPT !.income_events = Append(@, income_record),
                                !.inventories[row.base_asset] = add_lot(@, m, lot)])

_process_income(tc, m, row, transaction_id, price) ==
    LET income_value == price * row.base_amount
        income_record == [date           |-> row.timestamp,
                          asset          |-> row.base_asset,
                          amount         |-> row.base_amount,
                          price          |-> price,
                          income_amount  |-> income_value,
                          type           |-> row.type,
                          transaction_id |-> transaction_id]
        lot == TaxLot(row.base_amount, income_value, row.timestamp, transaction_id)
    IN IF price = 0 THEN Returned(tc)
       ELSE Returned([tc EXCEPT !.income_events = Append(@, income_record),
                                !.inventories[row.base_asset] = add_lot(@, m, lot)])

\* a withdrawal handler that records the lots it removes as disposals without proceeds
_process_withdrawal_taxed(tc, m, row, transaction_id) ==
    LET r == remove_amount(tc.inventories[row.base_asset], m, row.base_amount)
        records == [i \in 1..Len(r.removed_lots) |->
                       GainRecord(row, m, transaction_id, r.removed_lots[i].lot,
                                  r.removed_lots[i].amount, 0, "")]
    IN IF r.raised THEN Raised(tc)
       ELSE Returned([tc EXCEPT !.inventories[row.base_asset] = r.inv,
                                !.gains_losses = @ \o records,
                                !.consumed = @ \o LotIds(r.removed_lots)])

_process_withdrawal(tc, m, row, transaction_id) ==
    LET r == remove_amount(tc.inventories[row.base_asset], m, row.base_amount)
    IN IF r.raised THEN Raised(tc)
       ELSE Returned([tc EXCEPT !.inventories[row.base_asset] = r.inv])

_process_fee(tc, m, row, transaction_id, price) ==
    LET r == remove_amount(tc.inventories[row.base_asset], m, row.base_amount)
        records == [i \in 1..Len(r.removed_lots) |->
                       GainRecord(row, m, transaction_id, r.removed_lots[i].lot,
                                  r.removed_lots[i].amount, 0, "Fee transaction")]
    IN IF price = 0 THEN Returned(tc)
       ELSE IF r.raised THEN Raised(tc)
       ELSE Returned([tc EXCEPT !.inventories[row.base_asset] = r.inv,
                                !.gains_losses = @ \o records,
                                !.consumed = @ \o LotIds(r.removed_lots)])

\* a base_amount cell that is not a number (the column is then read as text):
\* float() at line 197 raises ValueError on it
NotANumber == 0 - 999

\* whether the handler of this row calls fetch_price
FetchesPrice(row) ==
    /\ row.base_amount \notin {0, NotANumber}
    /\ \/ row.type \in {"buy", "deposit", "sell"} /\ row.quote_amount <= 0
       \/ row.type \in {"stake", "airdrop", "fee"}

_process_transaction(tc, m, row, transaction_id, price) ==
    LET tc1 == [tc EXCEPT !.inventories = EnsureInventory(@, row.base_asset, m)]
    IN IF row.base_amount = NotANumber THEN Raised(tc)
       ELSE IF row.base_amount = 0 THEN Returned(tc)
       ELSE IF row.type \in {"buy", "deposit"}
            THEN _process_acquisition(tc1, m, row, transaction_id, price)
       ELSE IF row.type = "sell"
            THEN _process_disposal(tc1, m, row, transaction_id, price)
       ELSE IF row.type \in {"stake", "airdrop"}
            THEN _process_income(tc1, m, row, transaction_id, price)
       ELSE IF row.type \in {"withdraw", "transfer_out"}
            THEN _process_withdrawal(tc1, m, row, transaction_id)
       ELSE IF row.type = "fee"
            THEN _process_fee(tc1, m, row, transaction_id, price)
       ELSE Returned(tc1)

\* lines 176-180: the totals over the recorded events
RECURSIVE SumSeq(_)
SumSeq(s) == IF s = <<>> THEN 0 ELSE Head(s) + SumSeq(Tail(s))

ShortTermGains(gains) ==
    SumSeq([i \in 1..Len(gains) |-> IF gains[i].short_term THEN gains[i].gain_loss ELSE 0])

LongTermGains(gains) ==
    SumSeq([i \in 1..Len(gains) |-> IF gains[i].short_term THEN 0 ELSE gains[i].gain_loss])

TotalIncome(events) ==
    SumSeq([i \in 1..Len(events) |-> events[i].income_amount])

(***************************************************************************)
(* Inputs                                                                  *)
(***************************************************************************)
Row(timestamp, type, base_asset, base_amount, quote_amount, fee_amount) ==
    [timestamp    |-> timestamp,
     type         |-> type,
     base_asset   |-> base_asset,
     base_amount  |-> base_amount,
     quote_amount |-> quote_amount,
     fee_amount   |-> fee_amount]

\* money values of the inputs, in 1/CostUnit
Q == 2 * CostUnit
F == CostUnit
P == CostUnit

\* what fetch_price can answer: None (0) or a price
PriceAnswers(row) == IF FetchesPrice(row) THEN {0, P} ELSE {0}

\* the rows of the ledger runs: every transaction type, a zero amount,
\* amounts below, at and above the tolerance, sales with and without
\* quote_amount, a second asset
LedgerRows(t) ==
         {Row(t, "buy", "BTC", a, Q, F) : a \in Amounts}
    \cup {Row(t, "sell", "BTC", a, Q, F) : a \in Amounts \ {1}}
    \cup {Row(t, "deposit", "BTC", 3, Q, F), Row(t, "withdraw", "BTC", 5, 0, 0),
          Row(t, "fee", "BTC", 5, 0, 0), Row(t, "buy", "ETH", 3, Q, 0),
          Row(t, "buy", "BTC", 0, Q, F)}
    \cup {Row(t, k, "BTC", 3, 0, 0) : k \in {"sell", "stake", "airdrop", "transfer_out", "trade"}}

\* the rows of the trade runs: purchases and sales with and without fees, whole
\* and split lots, fee records
TradeRows(t) ==
    {Row(t, "buy", "BTC", 2, Q, 0), Row(t, "buy", "BTC", 5, Q, F),
     Row(t, "sell", "BTC", 3, 3 * Q, F), Row(t, "sell", "BTC", 5, Q, 0),
     Row(t, "fee", "BTC", 3, 0, 0)}

\* days between one record and the next
LedgerSteps == {0}
TradeSteps == {0, SHORT_TERM_DAYS - 1, SHORT_TERM_DAYS}

LastTimestamp == IF df = <<>> THEN 0 ELSE df[Len(df)].timestamp

(***************************************************************************)
(* calculate_taxes                                                         *)
(***************************************************************************)
NoResult ==
    [returned |-> FALSE, gains_losses |-> <<>>, income_events |-> <<>>,
     total_short_term_gains |-> 0, total_long_term_gains |-> 0, total_income |-> 0]

\* no file has been written at output_file
NoFile == [written |-> FALSE]

\* no function is under call
NoCall == [function |-> "none"]

\* the validator and the normalizer are not in use
ValidatorIdle ==
    /\ columns = {}
    /\ reports = <<>>
    /\ output_file = NoFile
    /\ call_args = NoCall
    /\ call_result = NoCall

\* TaxCalculator.__init__ (lines 125-133)
NewCalculator ==
    /\ inventories = TaxCalculator(method).inventories
    /\ gains_losses = TaxCalculator(method).gains_losses
    /\ income_events = TaxCalculator(method).income_events
    /\ consumed = TaxCalculator(method).consumed
    /\ total_short_term_gains = 0
    /\ total_long_term_gains = 0
    /\ total_income = 0
    /\ errors = <<>>

InventoryIdle ==
    /\ inventory = AssetInventory("BTC", method)
    /\ calls = <<>>

\* the inventory of an asset, or an empty one when the calculator holds none yet
InventoryOf(invs, asset) ==
    IF asset \in DOMAIN invs THEN invs[asset] ELSE AssetInventory(asset, method)

\* one iteration of the loop of lines 165-170 on row `row` with index label
\* `transaction_id`; `price` is the oracle's answer for this row
Iterate(row, transaction_id, price) ==
    LET tc == [inventories |-> inventories, gains_losses |-> gains_losses,
               income_events |-> income_events, consumed |-> consumed]
        r  == _process_transaction(tc, method, row, transaction_id, price)
    IN /\ inventories' = r.tc.inventories
       /\ gains_losses' = r.tc.gains_losses
       /\ income_events' = r.tc.income_events
       /\ consumed' = r.tc.consumed
       /\ errors' = IF r.raised THEN Append(errors, transaction_id) ELSE errors
       /\ pos' = pos + 1
       /\ trail' = Append(trail, [transaction_id |-> transaction_id,
                                  before |-> InventoryOf(inventories, row.base_asset),
                                  after  |-> InventoryOf(r.tc.inventories, row.base_asset),
                                  gains_before |-> Len(gains_losses),
                                  gains_after  |-> Len(r.tc.gains_losses),
                                  income_before |-> Len(income_events),
                                  income_after  |-> Len(r.tc.income_events),
                                  raised |-> r.raised])
       /\ UNCHANGED <<method, total_short_term_gains, total_long_term_gains, total_income,
                      pc, run, first_run, inventory, calls>>
       /\ UNCHANGED validator_vars

\* the loop reads the next row of a file that is already in timestamp order
NextRow(rows) ==
    /\ pc = "rows"
    /\ pos = Len(df)
    /\ pos < MaxRows
    /\ \E row \in rows : \E price \in PriceAnswers(row) :
          /\ df' = Append(df, row)
          /\ order' = Append(order, pos + 1)
          /\ prices' = Append(prices, price)
          /\ Iterate(row, pos, price)

\* lines 172-191: the totals and the returned (gains_df, total_income)
Finish ==
    /\ pc = "rows"
    /\ pos = Len(df)
    /\ pc' = "done"
    /\ total_short_term_gains' = ShortTermGains(gains_losses)
    /\ total_long_term_gains' = LongTermGains(gains_losses)
    /\ total_income' = TotalIncome(income_events)
    /\ first_run' = IF run = 1
                    THEN [returned |-> TRUE, gains_losses |-> gains_losses,
                          income_events |-> income_events,
                          total_short_term_gains |-> ShortTermGains(gains_losses),
                          total_long_term_gains |-> LongTermGains(gains_losses),
                          total_income |-> TotalIncome(income_events)]
                    ELSE first_run
    /\ UNCHANGED <<method, inventories, gains_losses, income_events, errors, df, order, pos,
                   prices, consumed, run, trail, inventory, calls>>
    /\ UNCHANGED validator_vars

LedgerNextRow == NextRow(UNION {LedgerRows(LastTimestamp + dt) : dt \in LedgerSteps})

TradeNextRow == NextRow(UNION {TradeRows(LastTimestamp + dt) : dt \in TradeSteps})

\* the engine on a file already in timestamp order
Init ==
    /\ method \in Methods
    /\ NewCalculator
    /\ pc = "rows"
    /\ df = <<>>
    /\ order = <<>>
    /\ pos = 0
    /\ prices = <<>>
    /\ run = 1
    /\ first_run = NoResult
    /\ trail = <<>>
    /\ InventoryIdle
    /\ ValidatorIdle

Next == LedgerNextRow \/ Finish

Spec == Init /\ [][Next]_vars

NextTrade == TradeNextRow \/ Finish

SpecTrade == Init /\ [][NextTrade]_vars

\* the rows of the policy runs: acquisitions at one unit cost (P per unit) in
\* lots of different sizes, one purchase at another unit cost, sales and a
\* withdrawal; each record is dated a day after the one before
PolicyRows(t) ==
    {Row(t, "buy", "BTC", 2, 2 * P, 0), Row(t, "buy", "BTC", 5, 5 * P, 0),
     Row(t, "buy", "BTC", 5, Q, F), Row(t, "stake", "BTC", 3, 0, 0),
     Row(t, "sell", "BTC", 3, 3 * Q, F), Row(t, "sell", "BTC", 5, Q, 0),
     Row(t, "withdraw", "BTC", 3, 0, 0)}

PolicySteps == {1}

PolicyNextRow == NextRow(UNION {PolicyRows(LastTimestamp + dt) : dt \in PolicySteps})

NextPolicy == PolicyNextRow \/ Finish

SpecPolicy == Init /\ [][NextPolicy]_vars

\* the methods a TaxCalculator can be constructed with: the three, one more of
\* those the command line offers (app/cli/main.py, --method choices) and the one
\* of test_invalid_method; __init__ stores whatever it is given
AcceptedMethods == Methods \cup {"average_cost", "invalid_method"}

InitMethod ==
    /\ method \in AcceptedMethods
    /\ NewCalculator
    /\ pc = "rows"
    /\ df = <<>>
    /\ order = <<>>
    /\ pos = 0
    /\ prices = <<>>
    /\ run = 1
    /\ first_run = NoResult
    /\ trail = <<>>
    /\ InventoryIdle
    /\ ValidatorIdle

SpecMethod == InitMethod /\ [][NextPolicy]_vars

\* the rows of the fault runs: records that are processed and a purchase whose
\* base_amount cannot be read as a number
FaultRows(t) ==
    {Row(t, "buy", "BTC", 5, Q, F), Row(t, "sell", "BTC", 3, Q, F),
     Row(t, "stake", "BTC", 3, 0, 0), Row(t, "buy", "BTC", NotANumber, Q, F)}

FaultSteps == {0, 1}

FaultNextRow == NextRow(UNION {FaultRows(LastTimestamp + dt) : dt \in FaultSteps})

NextFault == FaultNextRow \/ Finish

SpecFault == Init /\ [][NextFault]_vars

\* records whose base_amount carries a sign, as the exports that write what
\* leaves the account as a negative amount; purchases and sales of whole and
\* split lots
SignedRows(t) ==
    {Row(t, "buy", "BTC", 3, Q, F), Row(t, "buy", "BTC", 0 - 3, Q, F),
     Row(t, "buy", "BTC", 5, Q, F), Row(t, "sell", "BTC", 3, Q, F),
     Row(t, "sell", "BTC", 5, Q, 0), Row(t, "sell", "BTC", 0 - 3, Q, F),
     Row(t, "withdraw", "BTC", 3, 0, 0)}

SignedSteps == {1}

SignedNextRow == NextRow(UNION {SignedRows(LastTimestamp + dt) : dt \in SignedSteps})

NextSigned == SignedNextRow \/ Finish

SpecSigned == Init /\ [][NextSigned]_vars

(***************************************************************************)
(* One AssetInventory driven directly by add_lot and remove_amount calls   *)
(***************************************************************************)
LotCosts == {CostUnit, 2 * CostUnit}

RemoveAmounts == {0, 2, 3, 5}

Call(op, amount, before, removed_lots, raised) ==
    [op |-> op, amount |-> amount, before |-> before, removed_lots |-> removed_lots,
     raised |-> raised]

\* inventory.add_lot(TaxLot(amount, cost_basis, date, id)); lots are dated and
\* numbered in the order they are added
AddLot ==
    /\ pc = "inventory"
    /\ Len(calls) < MaxCalls
    /\ \E amount \in Amounts : \E cost_basis \in LotCosts :
          /\ inventory' = add_lot(inventory, method,
                                  TaxLot(amount, cost_basis, Len(calls), Len(calls)))
          /\ calls' = Append(calls, Call("add_lot", amount, inventory, <<>>, FALSE))
    /\ UNCHANGED <<method, engine_vars>>
    /\ UNCHANGED validator_vars

\* inventory.remove_amount(amount)
RemoveAmount ==
    /\ pc = "inventory"
    /\ Len(calls) < MaxCalls
    /\ \E amount \in RemoveAmounts :
          LET r == remove_amount(inventory, method, amount)
          IN /\ inventory' = r.inv
             /\ calls' = Append(calls, Call("remove_amount", amount, inventory,
                                            r.removed_lots, r.raised))
    /\ UNCHANGED <<method, engine_vars>>
    /\ UNCHANGED validator_vars

InitInv ==
    /\ method \in Methods
    /\ NewCalculator
    /\ pc = "inventory"
    /\ df = <<>>
    /\ order = <<>>
    /\ pos = 0
    /\ prices = <<>>
    /\ run = 1
    /\ first_run = NoResult
    /\ trail = <<>>
    /\ InventoryIdle
    /\ ValidatorIdle

NextInv == AddLot \/ RemoveAmount

SpecInv == InitInv /\ [][NextInv]_vars

(***************************************************************************)
(* Claims about one inventory (SpecInv)                                    *)
(***************************************************************************)
IsRemove(i) == i \in 1..Len(calls) /\ calls[i].op = "remove_amount"

\* the lot of `lots` that carries transaction id `id`
LotWithId(lots, id) == CHOOSE l \in {lots[j] : j \in 1..Len(lots)} : l.transaction_id = id

\* the lots of `lots` not among the first n entries of removed_lots
Untouched(lots, removed_lots, n) ==
    {l \in {lots[j] : j \in 1..Len(lots)} :
        \A k \in 1..n : removed_lots[k].lot.transaction_id # l.transaction_id}

\* lot x comes no later than lot l in the order of disposal policy m
PolicyBefore(m, x, l) ==
    CASE m = "fifo" -> x.transaction_id < l.transaction_id
      [] m = "lifo" -> x.transaction_id > l.transaction_id
      [] m = "hifo" -> x.cost_basis * l.amount >= l.cost_basis * x.amount

\* the last lot a remove call returned was split off a larger lot
LastIsPartial(c) ==
    /\ c.removed_lots # <<>>
    /\ LET last == c.removed_lots[Len(c.removed_lots)]
       IN last.amount < LotWithId(c.before.lots, last.lot.transaction_id).amount

\* C2: remove_amount consumes the lots in the order of the disposal policy
\* (oldest first under FIFO, newest first under LIFO, highest unit cost first
\* under HIFO), each lot whole before the next one is touched, and a
\* remove_amount that follows one which split a lot starts with that lot's
\* residual.
C2_PolicyOrder ==
    \A i \in 1..Len(calls) :
        IsRemove(i) =>
            LET c == calls[i]
                R == c.removed_lots
            IN /\ \A k \in 1..Len(R) :
                     /\ \A l \in Untouched(c.before.lots, R, k) :
                            PolicyBefore(method, R[k].lot, l)
                     /\ k < Len(R) =>
                            R[k].amount = LotWithId(c.before.lots, R[k].lot.transaction_id).amount
               /\ (LastIsPartial(c) /\ IsRemove(i + 1) /\ calls[i + 1].removed_lots # <<>>) =>
                     calls[i + 1].removed_lots[1].lot.transaction_id
                        = R[Len(R)].lot.transaction_id

\* a removal that took one lot whole and split the next, followed by a removal
\* that goes on with the residual, under HIFO with lots added out of cost order
C2_Witness ==
    /\ method = "hifo"
    /\ \E i \in 1..Len(calls) :
          /\ IsRemove(i) /\ IsRemove(i + 1)
          /\ Len(calls[i].removed_lots) = 2
          /\ LastIsPartial(calls[i])
          /\ calls[i + 1].removed_lots # <<>>
          /\ calls[i].removed_lots[1].lot.transaction_id
                > calls[i].removed_lots[2].lot.transaction_id

\* C6 (as claimed): remove_amount raises when asked for a positive amount
\* greater than total_amount, the empty inventory included.
C6_RaisesWhenInsufficient ==
    \A i \in 1..Len(calls) :
        (IsRemove(i) /\ calls[i].amount > 0
            /\ calls[i].amount > calls[i].before.total_amount) => calls[i].raised

(***************************************************************************)
(* calculate_taxes from the file: load, sort, loop, totals; and a second   *)
(* call of the convenience function on the same file.  The short files of  *)
(* the model stand for files of any length.                                *)
(***************************************************************************)
FileTimes == {0, 1}

FileRows ==
    UNION {{Row(t, "buy", "BTC", 5, Q, F), Row(t, "sell", "BTC", 3, Q, F),
            Row(t, "stake", "BTC", 3, 0, 0)} : t \in FileTimes}

Files == UNION {[1..n -> FileRows] : n \in 1..MaxFileRows}

\* the oracle's answers, one per row: a function of the row's asset and timestamp
OracleAnswers(rows) ==
    {p \in [1..Len(rows) -> {0, P}] : \A i \in 1..Len(rows) : p[i] \in PriceAnswers(rows[i])}

OrdersOf(n) == Permutations(1..n)

\* line 156: df.sort_values('timestamp') sorts with the default kind, quicksort,
\* which is not stable: rows of equal timestamp come out in any order
sort_values(rows) ==
    {o \in OrdersOf(Len(rows)) :
        \A i, j \in 1..Len(rows) : i < j => rows[o[i]].timestamp <= rows[o[j]].timestamp}

\* lines 146-156: read the file and sort it
LoadAndSort ==
    /\ pc = "load"
    /\ \E o \in sort_values(df) : order' = o
    /\ pc' = "rows"
    /\ UNCHANGED <<method, inventories, gains_losses, income_events, total_short_term_gains,
                   total_long_term_gains, total_income, errors, df, pos, prices, consumed,
                   run, first_run, trail, inventory, calls>>
    /\ UNCHANGED validator_vars

\* lines 165-170: iterrows hands out the rows in sorted order, each with the
\* index label it had in the file
ProcessRow ==
    /\ pc = "rows"
    /\ pos < Len(df)
    /\ Iterate(df[order[pos + 1]], order[pos + 1] - 1, prices[order[pos + 1]])
    /\ UNCHANGED <<df, order, prices>>

\* a calculator whose fields are those the last run left
ConstructCalculator_reused ==
    UNCHANGED <<inventories, gains_losses, income_events, consumed,
                total_short_term_gains, total_long_term_gains, total_income, errors>>

\* line 426: the convenience function constructs a new TaxCalculator per call
ConstructCalculator ==
    /\ inventories' = TaxCalculator(method).inventories
    /\ gains_losses' = TaxCalculator(method).gains_losses
    /\ income_events' = TaxCalculator(method).income_events
    /\ consumed' = TaxCalculator(method).consumed
    /\ total_short_term_gains' = 0
    /\ total_long_term_gains' = 0
    /\ total_income' = 0
    /\ errors' = <<>>

\* lines 414-427 a second time on the same file, method and oracle: the sort is a
\* function of its input, so the rows come out in the order of the first run
SecondRun ==
    /\ pc = "done"
    /\ run = 1
    /\ run' = 2
    /\ ConstructCalculator
    /\ pos' = 0
    /\ trail' = <<>>
    /\ pc' = "rows"
    /\ UNCHANGED <<method, df, order, prices, first_run, inventory, calls>>
    /\ UNCHANGED validator_vars

InitRun ==
    /\ method \in Methods
    /\ NewCalculator
    /\ pc = "load"
    /\ df \in Files
    /\ order = <<>>
    /\ pos = 0
    /\ prices \in OracleAnswers(df)
    /\ run = 1
    /\ first_run = NoResult
    /\ trail = <<>>
    /\ InventoryIdle
    /\ ValidatorIdle

NextRun == LoadAndSort \/ ProcessRow \/ Finish \/ SecondRun

SpecRun == InitRun /\ [][NextRun]_vars

(***************************************************************************)
(* Claims about the engine                                                 *)
(***************************************************************************)
\* the row the k-th iteration of the loop processed, and the oracle's answer for it
RowAt(k) == df[order[k]]

PriceAt(k) == prices[order[k]]

\* the row with index label id
RowById(id) == df[id + 1]

AssetsSeen == {df[i].base_asset : i \in 1..Len(df)}

Remaining(asset) ==
    LET lots == InventoryOf(inventories, asset).lots
    IN SumSeq([j \in 1..Len(lots) |-> lots[j].amount])

\* the record was dropped because no price was to be had for it
SkippedForPrice(k) ==
    /\ PriceAt(k) = 0
    /\ \/ RowAt(k).type \in {"stake", "airdrop", "fee"}
       \/ RowAt(k).type = "sell" /\ RowAt(k).quote_amount <= 0

\* the net amount of an asset over the records processed, every record counted
C1_ClaimedNet(asset) ==
    SumSeq([k \in 1..pos |->
        IF RowAt(k).base_asset # asset THEN 0
        ELSE IF RowAt(k).type \in {"buy", "deposit", "stake", "airdrop"} THEN RowAt(k).base_amount
        ELSE IF RowAt(k).type \in {"sell", "withdraw", "fee"} THEN 0 - RowAt(k).base_amount
        ELSE 0])

C1_ClaimedNoOverdraw(asset) ==
    \A k \in 1..pos :
        (RowAt(k).base_asset = asset /\ RowAt(k).type \in {"sell", "withdraw", "fee"})
            => RowAt(k).base_amount <= trail[k].before.total_amount

\* C1 (as claimed): after the last record, per asset, the amounts of the
\* buy/deposit/stake/airdrop records minus the amounts of the sell/withdraw/fee
\* records equal the amounts of the lots left, provided no disposal asked for
\* more than the inventory held at that point.
C1_Conservation ==
    pc = "done" =>
        \A asset \in AssetsSeen :
            C1_ClaimedNoOverdraw(asset) => C1_ClaimedNet(asset) = Remaining(asset)

\* the disposals that reach remove_amount (lines 214-217 with 259-263, 345-347)
C1_IsDisposal(k) ==
    /\ RowAt(k).type \in {"sell", "withdraw", "transfer_out", "fee"}
    /\ ~SkippedForPrice(k)

C1_Net(asset) ==
    SumSeq([k \in 1..pos |->
        IF RowAt(k).base_asset # asset \/ SkippedForPrice(k) THEN 0
        ELSE IF RowAt(k).type \in {"buy", "deposit", "stake", "airdrop"} THEN RowAt(k).base_amount
        ELSE IF C1_IsDisposal(k) THEN 0 - RowAt(k).base_amount
        ELSE 0])

C1_Disposals(asset) ==
    Cardinality({k \in 1..pos : RowAt(k).base_asset = asset /\ C1_IsDisposal(k)})

C1_NoOverdraw(asset) ==
    \A k \in 1..pos :
        (RowAt(k).base_asset = asset /\ C1_IsDisposal(k))
            => RowAt(k).base_amount <= trail[k].before.total_amount

\* C1 (amended): counting transfer_out among the disposals and leaving out the
\* records dropped for want of a price, the lots left hold the net amount plus
\* what the disposals left unconsumed, at most 1e-8 each.
C1_ConservationWithinTolerance ==
    pc = "done" =>
        \A asset \in AssetsSeen :
            C1_NoOverdraw(asset) =>
                /\ C1_Net(asset) <= Remaining(asset)
                /\ Remaining(asset) <= C1_Net(asset) + EPS * C1_Disposals(asset)

\* a finished run with a dropped stake, a sale within the inventory, and lots left
\* over beyond the net amount
C1_Witness ==
    /\ pc = "done"
    /\ C1_NoOverdraw("BTC")
    /\ \E k \in 1..pos : RowAt(k).type = "stake" /\ SkippedForPrice(k)
    /\ \E k \in 1..pos : RowAt(k).type = "sell" /\ C1_IsDisposal(k)
    /\ Remaining("BTC") > C1_Net("BTC")

\* C3: every disposal event is short-term exactly when the days from the
\* acquisition of the lot it was taken from to the disposal are fewer than 365.
C3_ShortTerm ==
    \A i \in 1..Len(gains_losses) :
        LET g == gains_losses[i]
            t_sell == RowById(g.transaction_id).timestamp
            t_acq  == RowById(consumed[i]).timestamp
        IN g.short_term <=> (t_sell - t_acq < 365)

\* an event for a lot acquired the same day (short-term) beside an event for part
\* of a lot acquired exactly 365 days before (long-term)
C3_Witness ==
    /\ \E i \in 1..Len(gains_losses) :
          /\ RowById(gains_losses[i].transaction_id).timestamp
                 - RowById(consumed[i]).timestamp = 365
          /\ ~gains_losses[i].short_term
          /\ gains_losses[i].amount < RowById(consumed[i]).base_amount
    /\ \E i \in 1..Len(gains_losses) :
          /\ RowById(gains_losses[i].transaction_id).timestamp
                 = RowById(consumed[i]).timestamp
          /\ gains_losses[i].short_term

\* C4: a sale with a quote amount taking amount a from a lot bought with a quote
\* amount has cost_basis = (buy quote + buy fee) * a / buy amount, proceeds =
\* (sell quote - sell fee) * a / sell amount, and gain_loss = proceeds - cost_basis
\* (the two quotients are stated multiplied out).
C4_FeeTreatment ==
    \A i \in 1..Len(gains_losses) :
        LET g    == gains_losses[i]
            sell == RowById(g.transaction_id)
            buy  == RowById(consumed[i])
        IN (/\ sell.type = "sell" /\ sell.quote_amount > 0
            /\ buy.type = "buy" /\ buy.quote_amount > 0)
           => /\ g.cost_basis * buy.base_amount
                    = (buy.quote_amount + buy.fee_amount) * g.amount
              /\ g.proceeds * sell.base_amount
                    = (sell.quote_amount - sell.fee_amount) * g.amount
              /\ g.gain_loss = g.proceeds - g.cost_basis

\* a sale with a fee that takes part of a lot bought with a fee
C4_Witness ==
    \E i \in 1..Len(gains_losses) :
        LET g    == gains_losses[i]
            sell == RowById(g.transaction_id)
            buy  == RowById(consumed[i])
        IN /\ sell.type = "sell" /\ sell.quote_amount > 0 /\ sell.fee_amount > 0
           /\ buy.type = "buy" /\ buy.quote_amount > 0 /\ buy.fee_amount > 0
           /\ g.amount < buy.base_amount
           /\ g.cost_basis > 0 /\ g.proceeds > 0

\* the amounts and cost bases of the disposal events the k-th record emitted
EventAmounts(k) ==
    SumSeq([j \in 1..(trail[k].gains_after - trail[k].gains_before) |->
               gains_losses[trail[k].gains_before + j].amount])

Consumed(k) == trail[k].before.total_amount - trail[k].after.total_amount

\* what the k-th record left: everything held consumed, events for that only
C5_Outcome(k) ==
    /\ ~trail[k].raised
    /\ trail[k].after.lots = <<>>
    /\ trail[k].after.total_amount = 0
    /\ Consumed(k) = trail[k].before.total_amount
    /\ EventAmounts(k) = (IF RowAt(k).type = "withdraw" THEN 0 ELSE Consumed(k))
    /\ Len(errors) = 0

C7_SmallAmounts ==
    (/\ pos = 2
     /\ df[1].type = "buy" /\ df[2].type = "sell"
     /\ df[1].base_asset = df[2].base_asset
     /\ df[1].base_amount > 0 /\ df[1].base_amount = df[2].base_amount
     /\ df[2].quote_amount > 0)
        => /\ Len(gains_losses) = 1
           /\ gains_losses[1].amount = df[2].base_amount
           /\ Remaining(df[1].base_asset) = 0

\* the events of the k-th record: zero proceeds, one per lot taken from
C8_Events(k) ==
    LET n == trail[k].gains_after - trail[k].gains_before
        ev(j) == gains_losses[trail[k].gains_before + j]
    IN /\ \A j \in 1..n :
              /\ ev(j).proceeds = 0
              /\ ev(j).gain_loss = 0 - ev(j).cost_basis
              /\ ev(j).transaction_id = trail[k].transaction_id
              /\ \A h \in 1..n : h # j => consumed[trail[k].gains_before + h]
                                            # consumed[trail[k].gains_before + j]
       /\ EventAmounts(k) = Consumed(k)
       /\ SumSeq([j \in 1..n |-> ev(j).cost_basis])
              = trail[k].before.total_cost_basis - trail[k].after.total_cost_basis

\* C8 (as claimed): every fee record with a non-zero amount, here one the
\* inventory covers, consumes that amount and emits one disposal event per sub-lot
\* taken, with proceeds 0 and gain_loss = -cost_basis.
C8_FeeAsDisposal ==
    \A k \in 1..pos :
        (/\ RowAt(k).type = "fee" /\ RowAt(k).base_amount # 0
         /\ RowAt(k).base_amount <= trail[k].before.total_amount)
            => /\ Consumed(k) = RowAt(k).base_amount
               /\ trail[k].gains_after > trail[k].gains_before
               /\ C8_Events(k)

\* the timestamp of the record an event came from
EventTime(e) == RowById(e.transaction_id).timestamp

InOrder(events) ==
    \A i, j \in 1..Len(events) :
        i < j => \/ EventTime(events[i]) < EventTime(events[j])
                 \/ /\ EventTime(events[i]) = EventTime(events[j])
                    /\ events[i].transaction_id <= events[j].transaction_id

\* C9 (as claimed): the records are processed in non-decreasing timestamp order,
\* those of equal timestamp in their input order, and the disposal and income
\* events are emitted in that order.
C9_EventOrdering ==
    /\ \A i, j \in 1..pos :
          i < j => \/ RowAt(i).timestamp < RowAt(j).timestamp
                   \/ RowAt(i).timestamp = RowAt(j).timestamp /\ order[i] < order[j]
    /\ InOrder(gains_losses)
    /\ InOrder(income_events)

RECURSIVE RunRows(_, _)
RunRows(m, k) ==
    IF k = 0 THEN [tc |-> TaxCalculator(m), emitted |-> <<>>]
    ELSE LET before == RunRows(m, k - 1)
             after  == _process_transaction(before.tc, m, RowAt(k), order[k] - 1, PriceAt(k)).tc
         IN [tc      |-> after,
             emitted |-> Append(before.emitted,
                                SubSeq(after.gains_losses, Len(before.tc.gains_losses) + 1,
                                       Len(after.gains_losses)))]

WithoutMethod(events) ==
    [i \in 1..Len(events) |-> [events[i] EXCEPT !.method = ""]]

\* the records that add a lot, and the unit cost of the lot as a fraction
AddsLot(k) ==
    /\ RowAt(k).base_amount > 0
    /\ \/ RowAt(k).type \in {"buy", "deposit"}
       \/ RowAt(k).type \in {"stake", "airdrop"} /\ PriceAt(k) # 0

LotCostOf(k) ==
    IF RowAt(k).type \in {"buy", "deposit"} THEN AcquisitionCostBasis(RowAt(k), PriceAt(k))
    ELSE PriceAt(k) * RowAt(k).base_amount

UniformBasis ==
    \A j, k \in 1..pos :
        (AddsLot(j) /\ AddsLot(k) /\ RowAt(j).base_asset = RowAt(k).base_asset)
            => LotCostOf(j) * RowAt(k).base_amount = LotCostOf(k) * RowAt(j).base_amount

\* C11 (as claimed): when all acquisitions of an asset have the same unit cost,
\* the same input gives the same disposal events under fifo, lifo and hifo,
\* apart from the method field.
C11_PolicyEquivalence ==
    UniformBasis =>
        LET byMethod == [m \in Methods |-> WithoutMethod(RunRows(m, pos).tc.gains_losses)]
        IN \A m1, m2 \in Methods : byMethod[m1] = byMethod[m2]

\* the records that reach remove_amount, among the first k, for the asset of the k-th
ConsumingBefore(k) ==
    Cardinality({j \in 1..k : /\ RowAt(j).base_asset = RowAt(k).base_asset
                              /\ C1_IsDisposal(j)})

EventsAmount(events) == SumSeq([i \in 1..Len(events) |-> events[i].amount])

\* C11 (amended): with one unit cost, every disposal event carries that unit cost
\* and its record's proceeds per unit under each method, and the amount a record
\* disposes of differs between two methods by at most 1e-8 per consuming record
\* so far; the number of events and their acquisition dates may differ.
C11_PolicyEquivalenceOfTotals ==
    UniformBasis =>
        LET byMethod == [m \in Methods |-> RunRows(m, pos).emitted]
        IN \A k \in 1..pos : \A m1 \in Methods :
            /\ \A m2 \in Methods :
                  EventsAmount(byMethod[m1][k]) - EventsAmount(byMethod[m2][k])
                      <= EPS * ConsumingBefore(k)
            /\ \A i \in 1..Len(byMethod[m1][k]) :
                  LET e == byMethod[m1][k][i]
                  IN /\ \A j \in 1..pos :
                            (AddsLot(j) /\ RowAt(j).base_asset = e.asset)
                                => e.cost_basis * RowAt(j).base_amount
                                       = LotCostOf(j) * e.amount
                     /\ RowAt(k).type = "sell"
                            => e.proceeds * RowAt(k).base_amount
                                   = DisposalProceeds(RowAt(k), PriceAt(k)).proceeds * e.amount
                     /\ e.gain_loss = e.proceeds - e.cost_basis

\* lots of 2 and 5 at one unit cost and a sale of 3: two events under fifo, one
\* under lifo, the lots acquired on different days
C11_Witness ==
    /\ UniformBasis
    /\ pos = 3
    /\ AddsLot(1) /\ AddsLot(2) /\ RowAt(1).base_amount # RowAt(2).base_amount
    /\ RowAt(3).type = "sell"
    /\ Len(RunRows("fifo", 3).emitted[3]) # Len(RunRows("lifo", 3).emitted[3])
    /\ RunRows(method, pos).tc.gains_losses = gains_losses

\* every lot of the asset is gone at the end of the input, and there were some
Closed(asset) ==
    /\ pc = "done"
    /\ InventoryOf(inventories, asset).lots = <<>>
    /\ \E k \in 1..pos : AddsLot(k) /\ RowAt(k).base_asset = asset

DisposedBasis(asset) ==
    SumSeq([i \in 1..Len(gains_losses) |->
               IF gains_losses[i].asset = asset THEN gains_losses[i].cost_basis ELSE 0])

BuyFees(asset) ==
    SumSeq([k \in 1..pos |->
               IF RowAt(k).base_asset = asset /\ RowAt(k).type = "buy" /\ RowAt(k).base_amount # 0
               THEN RowAt(k).fee_amount ELSE 0])

AddedBasis(asset) ==
    SumSeq([k \in 1..pos |->
               IF RowAt(k).base_asset = asset /\ AddsLot(k) THEN LotCostOf(k) ELSE 0])

\* the cost basis of the lots that withdraw and transfer_out records removed
WithdrawnBasis(asset) ==
    SumSeq([k \in 1..pos |->
               IF RowAt(k).base_asset = asset /\ RowAt(k).type \in {"withdraw", "transfer_out"}
               THEN trail[k].before.total_cost_basis - trail[k].after.total_cost_basis
               ELSE 0])

Without(seq, i) == SubSeq(seq, 1, i - 1) \o SubSeq(seq, i + 1, Len(seq))

\* C13: a stake or airdrop record with a non-zero amount and a price appends one
\* income event of value price * amount and adds one lot of that amount, with
\* cost_basis = value, acquired at the record's time; without a price it appends
\* no income event and adds no lot.
C13_StakeIncome ==
    \A k \in 1..pos :
        (RowAt(k).type \in {"stake", "airdrop"} /\ RowAt(k).base_amount # 0)
            => LET row   == RowAt(k)
                   value == PriceAt(k) * row.base_amount
                   lot   == TaxLot(row.base_amount, value, row.timestamp,
                                   trail[k].transaction_id)
               IN IF PriceAt(k) # 0
                  THEN /\ trail[k].income_after = trail[k].income_before + 1
                       /\ income_events[trail[k].income_after].income_amount = value
                       /\ income_events[trail[k].income_after].amount = row.base_amount
                       /\ income_events[trail[k].income_after].transaction_id
                              = trail[k].transaction_id
                       /\ \E i \in 1..Len(trail[k].after.lots) :
                             /\ trail[k].after.lots[i] = lot
                             /\ Without(trail[k].after.lots, i) = trail[k].before.lots
                       /\ trail[k].after.total_amount
                              = trail[k].before.total_amount + row.base_amount
                       /\ trail[k].after.total_cost_basis
                              = trail[k].before.total_cost_basis + value
                       /\ trail[k].gains_after = trail[k].gains_before
                  ELSE /\ trail[k].income_after = trail[k].income_before
                       /\ trail[k].after = trail[k].before
                       /\ trail[k].gains_after = trail[k].gains_before

\* a priced stake whose lot goes in front of an older, cheaper lot under hifo,
\* after an airdrop without a price
C13_Witness ==
    /\ method = "hifo"
    /\ \E k \in 1..pos :
          /\ RowAt(k).type = "stake" /\ PriceAt(k) # 0
          /\ Len(trail[k].before.lots) > 0
          /\ trail[k].after.lots[1].transaction_id = trail[k].transaction_id
          /\ trail[k].income_after = trail[k].income_before + 1
    /\ \E k \in 1..pos : RowAt(k).type = "airdrop" /\ PriceAt(k) = 0

\* the step processes a withdraw or transfer_out record with a non-zero amount
WithdrawalStep ==
    /\ pos' = pos + 1
    /\ df'[order'[pos']].type \in {"withdraw", "transfer_out"}
    /\ df'[order'[pos']].base_amount # 0

\* what a withdrawal step does: the asset's inventory after it is what
\* remove_amount leaves under the method (the amount, up to what is held and
\* short of at most the tolerance), and nothing else changes
WithdrawalEffect ==
    LET row   == df'[order'[pos']]
        asset == row.base_asset
        held  == InventoryOf(inventories, asset)
        taken == held.total_amount - inventories'[asset].total_amount
    IN /\ inventories'[asset] = remove_amount(held, method, row.base_amount).inv
       /\ taken >= 0
       /\ taken <= row.base_amount
       /\ row.base_amount - taken <= EPS \/ inventories'[asset].lots = <<>>
       /\ gains_losses' = gains_losses
       /\ income_events' = income_events
       /\ DOMAIN inventories' = DOMAIN inventories \cup {asset}
       /\ \A a \in DOMAIN inventories \ {asset} : inventories'[a] = inventories[a]

C15_InvalidMethodRejected ==
    method \notin Methods => (pos = 0 /\ pc # "done")

\* what calculate_taxes hands back (line 191): the gains and the income total,
\* with the other fields of the calculator; an error report is no part of it
ReturnedFields == DOMAIN first_run

\* C16 (as claimed): when a record raises, the exception stays inside
\* calculate_taxes, the later records are processed, and the id of the failing
\* record is in an error report returned with the result.
C16_FailureIsolation ==
    (pc = "done" /\ errors # <<>>) =>
        /\ first_run.returned
        /\ pos = Len(df)
        /\ "error_report" \in ReturnedFields
        /\ \A i \in 1..Len(errors) :
              \E j \in 1..Len(first_run.error_report) : first_run.error_report[j] = errors[i]

(***************************************************************************)
(* The validator of src/app/core/validate.py: validate_df with             *)
(* check_balances, and validate_transaction_sequence, called on a table    *)
(* that grows by appended transactions.  The rows of the model have valid  *)
(* dates, numeric positive amounts and no missing cells.                   *)
(***************************************************************************)
MaxTableRows == 3

AllColumns ==
    {"timestamp", "type", "base_asset", "base_amount", "quote_asset", "quote_amount",
     "fee_amount", "fee_asset", "notes"}

\* validate_df, lines 22-23
required_cols == <<"timestamp", "type", "base_asset", "base_amount">>

\* the tables handed to the validator: complete, or lacking one of the required
\* columns
TableColumns ==
    {AllColumns} \cup {AllColumns \ {required_cols[c]} : c \in 1..Len(required_cols)}

TableRows ==
    {Row(0, "sell", "BTC", 3, 0, 0), Row(0, "buy", "BTC", 3, 0, 0),
     Row(0, "transfer_in", "BTC", 3, 0, 0), Row(0, "withdraw", "ETH", 3, 0, 0),
     Row(1, "sell", "BTC", 2, 0, 0), Row(1, "fee", "BTC", 3, 0, 0)}

\* df['base_asset'].dropna().unique(): the assets in order of first appearance
RECURSIVE UniqueAssets(_)
UniqueAssets(rows) ==
    IF rows = <<>> THEN <<>>
    ELSE LET front == UniqueAssets(SubSeq(rows, 1, Len(rows) - 1))
             asset == rows[Len(rows)].base_asset
         IN IF \E i \in 1..Len(front) : front[i] = asset THEN front ELSE Append(front, asset)

\* df[df['base_asset'] == asset]: the asset's rows, in table order
AssetRows(rows, asset) == SelectSeq(rows, LAMBDA row : row.base_asset = asset)

\* asset_df.sort_values('timestamp') (lines 157, 308): the default quicksort, rows
\* of equal timestamp in any order
SortedAssetRows(rows, asset) ==
    LET asset_df == AssetRows(rows, asset)
    IN {[k \in 1..Len(asset_df) |-> asset_df[o[k]]] : o \in sort_values(asset_df)}

\* one sorted order per asset
Walks(rows) ==
    LET assets == {rows[i].base_asset : i \in 1..Len(rows)}
        sorted == [a \in assets |-> SortedAssetRows(rows, a)]
    IN {w \in [assets -> UNION {sorted[a] : a \in assets}] : \A a \in assets : w[a] \in sorted[a]}

\* a balance that does not count transfer_in as an addition
BalanceAfter_notransfer(balance, row) ==
    IF row.type \in {"buy", "deposit", "stake", "airdrop"}
    THEN balance + row.base_amount
    ELSE IF row.type \in {"sell", "withdraw", "transfer_out", "fee"}
    THEN balance - row.base_amount
    ELSE balance

\* a balance that does not count withdrawals
BalanceAfter_nowithdraw(balance, row) ==
    IF row.type \in {"buy", "deposit", "stake", "airdrop", "transfer_in"}
    THEN balance + row.base_amount
    ELSE IF row.type \in {"sell", "transfer_out", "fee"}
    THEN balance - row.base_amount
    ELSE balance

\* lines 165-169: the balance after a row
BalanceAfter(balance, row) ==
    IF row.type \in {"buy", "deposit", "stake", "airdrop", "transfer_in"}
    THEN balance + row.base_amount
    ELSE IF row.type \in {"sell", "withdraw", "transfer_out", "fee"}
    THEN balance - row.base_amount
    ELSE balance

\* lines 161-181: the loop over the asset's sorted rows `walk`, from row i on
RECURSIVE WalkBalance(_, _, _)
WalkBalance(walk, i, balance) ==
    IF i > Len(walk) THEN <<>>
    ELSE LET row == walk[i]
             b   == BalanceAfter(balance, row)
             entry == [asset |-> row.base_asset, timestamp |-> row.timestamp, balance |-> b,
                       transaction_type |-> row.type, amount |-> row.base_amount]
         IN (IF b < 0 - EPS THEN <<entry>> ELSE <<>>) \o WalkBalance(walk, i + 1, b)

RECURSIVE ConcatAll(_)
ConcatAll(seqs) == IF seqs = <<>> THEN <<>> ELSE Head(seqs) \o ConcatAll(Tail(seqs))

\* check_balances, lines 137-183
check_balances(rows, cols, walks) ==
    IF ~({"base_asset", "base_amount", "type", "timestamp"} \subseteq cols) THEN <<>>
    ELSE LET assets == UniqueAssets(rows)
         IN ConcatAll([a \in 1..Len(assets) |-> WalkBalance(walks[assets[a]], 1, 0)])

\* check_duplicates, lines 82-110: rows equal to an earlier row in the four columns
check_duplicates(rows) ==
    Cardinality({i \in 1..Len(rows) : \E j \in 1..(i - 1) :
        /\ rows[j].timestamp = rows[i].timestamp /\ rows[j].type = rows[i].type
        /\ rows[j].base_asset = rows[i].base_asset
        /\ rows[j].base_amount = rows[i].base_amount})

\* validate_df, lines 11-79: the dictionary it returns
validate_df(rows, cols, walks) ==
    LET missing_cols == SelectSeq(required_cols, LAMBDA c : c \notin cols)
        validation_results == [total_transactions |-> Len(rows), errors |-> <<>>,
                               warnings |-> <<>>, duplicates_found |-> 0,
                               negative_balances |-> <<>>, invalid_dates |-> 0,
                               missing_data |-> <<>>]
    IN IF missing_cols # <<>>
       THEN [validation_results EXCEPT !.errors = <<[missing |-> missing_cols]>>]
       ELSE [validation_results EXCEPT !.duplicates_found = check_duplicates(rows),
                                       !.negative_balances = check_balances(rows, cols, walks)]

\* lines 310-321: the loop of validate_transaction_sequence over one asset's
\* sorted rows
RECURSIVE WalkSequence(_, _, _)
WalkSequence(walk, i, has_buy_or_deposit) ==
    IF i > Len(walk) THEN <<>>
    ELSE LET row == walk[i]
             entry == [asset |-> row.base_asset, timestamp |-> row.timestamp, type |-> row.type]
         IN IF row.type \in {"buy", "deposit", "stake", "airdrop"}
            THEN WalkSequence(walk, i + 1, TRUE)
            ELSE IF row.type \in {"sell", "withdraw"} /\ ~has_buy_or_deposit
            THEN <<entry>> \o WalkSequence(walk, i + 1, has_buy_or_deposit)
            ELSE WalkSequence(walk, i + 1, has_buy_or_deposit)

\* validate_transaction_sequence, lines 286-322
validate_transaction_sequence(rows, cols, walks) ==
    LET results == [sequence_errors |-> <<>>, orphaned_sells |-> <<>>,
                    suspicious_patterns |-> <<>>]
    IN IF ~({"base_asset", "type", "timestamp"} \subseteq cols) THEN results
       ELSE LET assets == UniqueAssets(rows)
            IN [results EXCEPT !.orphaned_sells =
                   ConcatAll([a \in 1..Len(assets) |->
                                 WalkSequence(walks[assets[a]], 1, FALSE)])]

\* a caller validates a table, appends transactions to it and validates it again
NoReport == [call |-> "none"]

Report(call, walks, validation, sequence) ==
    [call |-> call, total |-> Len(df), walks |-> walks,
     validation |-> validation, sequence |-> sequence]

Reported(report) ==
    /\ reports' = Append(reports, report)
    /\ pc' = IF pc = "table" THEN "appended" ELSE "validated"
    /\ UNCHANGED <<method, inventories, gains_losses, income_events, total_short_term_gains,
                   total_long_term_gains, total_income, errors, df, order, pos, prices,
                   consumed, run, first_run, trail, inventory, calls, columns, output_file,
                   call_args, call_result>>

\* no row order is chosen by a call that returns before it sorts
NoWalks == <<>>

\* results = validate_df(df)
ValidateDf ==
    /\ pc \in {"table", "appended"}
    /\ IF {required_cols[c] : c \in 1..Len(required_cols)} \subseteq columns
       THEN \E walks \in Walks(df) :
               Reported(Report("validate_df", walks, validate_df(df, columns, walks),
                               NoReport))
       ELSE Reported(Report("validate_df", NoWalks, validate_df(df, columns, NoWalks),
                            NoReport))

\* results = validate_transaction_sequence(df)
ValidateSequence ==
    /\ pc \in {"table", "appended"}
    /\ IF {"base_asset", "type", "timestamp"} \subseteq columns
       THEN \E walks \in Walks(df) :
               Reported(Report("validate_transaction_sequence", walks, NoReport,
                               validate_transaction_sequence(df, columns, walks)))
       ELSE Reported(Report("validate_transaction_sequence", NoWalks, NoReport,
                            validate_transaction_sequence(df, columns, NoWalks)))

\* pd.concat([df, more]): transactions appended to the table
AppendTransaction ==
    /\ pc \in {"table", "appended"}
    /\ Len(df) < MaxTableRows
    /\ \E row \in TableRows : df' = Append(df, row)
    /\ UNCHANGED <<method, inventories, gains_losses, income_events, total_short_term_gains,
                   total_long_term_gains, total_income, errors, pc, order, pos, prices,
                   consumed, run, first_run, trail, inventory, calls, columns, reports,
                   output_file, call_args, call_result>>

InitValidate ==
    /\ method = "fifo"
    /\ NewCalculator
    /\ pc = "table"
    /\ df = <<>>
    /\ order = <<>>
    /\ pos = 0
    /\ prices = <<>>
    /\ run = 1
    /\ first_run = NoResult
    /\ trail = <<>>
    /\ InventoryIdle
    /\ columns \in TableColumns
    /\ reports = <<>>
    /\ output_file = NoFile
    /\ call_args = NoCall
    /\ call_result = NoCall

NextValidate == AppendTransaction \/ ValidateDf \/ ValidateSequence

SpecValidate == InitValidate /\ [][NextValidate]_vars

(***************************************************************************)
(* Claims about the validator (SpecValidate)                               *)
(***************************************************************************)
\* the table a report was computed from: the table only grows at its end
TableOf(r) == SubSeq(df, 1, r.total)

\* the signed amount of a row in the running balance
SignedAmount(row) ==
    IF row.type \in {"buy", "deposit", "stake", "airdrop", "transfer_in"} THEN row.base_amount
    ELSE IF row.type \in {"sell", "withdraw", "transfer_out", "fee"} THEN 0 - row.base_amount
    ELSE 0

\* the running balance of an asset after the k-th row of its walk
RunningBalance(walk, k) == SumSeq([i \in 1..k |-> SignedAmount(walk[i])])

\* the rows of one asset's walk after which the balance is below -1e-8, in order
NegativePoints(walk) ==
    LET below == SelectSeq([k \in 1..Len(walk) |-> k],
                           LAMBDA k : RunningBalance(walk, k) < 0 - EPS)
    IN [n \in 1..Len(below) |->
           [asset |-> walk[below[n]].base_asset,
            timestamp |-> walk[below[n]].timestamp,
            balance |-> RunningBalance(walk, below[n]),
            transaction_type |-> walk[below[n]].type,
            amount |-> walk[below[n]].base_amount]]

\* `walk` holds the rows of `asset`, each once, by ascending timestamp
IsTimestampOrder(rows, asset, walk) ==
    LET own == SelectSeq(rows, LAMBDA row : row.base_asset = asset)
    IN /\ \E o \in OrdersOf(Len(own)) : walk = [k \in 1..Len(own) |-> own[o[k]]]
       /\ \A i, j \in 1..Len(walk) : i < j => walk[i].timestamp <= walk[j].timestamp

\* C17: in every report of validate_df on a table with the four columns, each
\* asset's rows were walked in timestamp order, and negative_balances holds, asset
\* after asset, one entry for exactly the rows after which the asset's running
\* balance (+ for buy/deposit/stake/airdrop/transfer_in, - for
\* sell/withdraw/transfer_out/fee) is below -1e-8
C17_RunningBalance ==
    \A n \in 1..Len(reports) :
        LET r == reports[n]
            rows == TableOf(r)
            assets == UniqueAssets(rows)
        IN (r.call = "validate_df" /\ columns = AllColumns) =>
              /\ \A a \in 1..Len(assets) : IsTimestampOrder(rows, assets[a], r.walks[assets[a]])
              /\ r.validation.negative_balances
                    = ConcatAll([a \in 1..Len(assets) |-> NegativePoints(r.walks[assets[a]])])

\* C17 witness: a report on a table of two assets, in which a row that leaves a
\* balance of exactly -1e-8 was not reported and a row of each asset was
C17_Witness ==
    \E n \in 1..Len(reports) :
        LET r == reports[n]
            rows == TableOf(r)
        IN /\ r.call = "validate_df" /\ columns = AllColumns
           /\ Len(UniqueAssets(rows)) = 2
           /\ \E k \in 1..Len(r.walks["BTC"]) : RunningBalance(r.walks["BTC"], k) = 0 - EPS
           /\ {r.validation.negative_balances[e].asset :
                  e \in 1..Len(r.validation.negative_balances)} = {"BTC", "ETH"}
           /\ Len(r.validation.negative_balances) = 2

\* the points a report lists: negative-balance points or orphan sells
PointsOf(r) ==
    IF r.call = "validate_df" THEN r.validation.negative_balances
    ELSE r.sequence.orphaned_sells

\* report m is of the same function as report n, on the table of n with
\* transactions appended
OnAppended(n, m) ==
    /\ n < m
    /\ reports[n].call = reports[m].call
    /\ reports[n].total < reports[m].total

\* every transaction appended between the two reports is dated after t
AppendedAfter(n, m, t) ==
    \A i \in (reports[n].total + 1)..reports[m].total : t < df[i].timestamp

\* the point is listed again: an entry for the same asset and timestamp
StillReported(point, r) ==
    \E e \in 1..Len(PointsOf(r)) :
        /\ PointsOf(r)[e].asset = point.asset
        /\ PointsOf(r)[e].timestamp = point.timestamp

\* C18: a negative-balance point or an orphan sell reported on a table, at a
\* timestamp earlier than every transaction appended afterwards, is reported
\* again on the appended table
C18_Monotonicity ==
    \A n, m \in 1..Len(reports) :
        (columns = AllColumns /\ OnAppended(n, m)) =>
            \A e \in 1..Len(PointsOf(reports[n])) :
                AppendedAfter(n, m, PointsOf(reports[n])[e].timestamp)
                    => StillReported(PointsOf(reports[n])[e], reports[m])

\* no two rows of one asset carry the same timestamp
DistinctTimestamps(rows) ==
    \A i, j \in 1..Len(rows) :
        (i # j /\ rows[i].base_asset = rows[j].base_asset)
            => rows[i].timestamp # rows[j].timestamp

\* the same on tables whose sort has one outcome: the points are kept there
C18_MonotonicityWithoutTies ==
    \A n, m \in 1..Len(reports) :
        (columns = AllColumns /\ OnAppended(n, m) /\ DistinctTimestamps(TableOf(reports[m]))) =>
            \A e \in 1..Len(PointsOf(reports[n])) :
                AppendedAfter(n, m, PointsOf(reports[n])[e].timestamp)
                    => StillReported(PointsOf(reports[n])[e], reports[m])

\* the required columns the table lacks
MissingColumns == {required_cols[c] : c \in 1..Len(required_cols)} \ columns

\* the errors of the report name the column
NamesColumn(errs, col) ==
    \E e \in 1..Len(errs) : \E c \in 1..Len(errs[e].missing) : errs[e].missing[c] = col

\* the first half of C19: the errors list names every missing column
C19_ErrorsNameMissing ==
    \A n \in 1..Len(reports) :
        reports[n].call = "validate_df" =>
            \A col \in MissingColumns : NamesColumn(reports[n].validation.errors, col)

\* C19: when the table lacks one of timestamp, type, base_asset, base_amount, the
\* report of validate_df names the missing column in its errors list and carries
\* is_valid = false
C19_MissingColumns ==
    \A n \in 1..Len(reports) :
        (reports[n].call = "validate_df" /\ MissingColumns # {}) =>
            /\ \A col \in MissingColumns : NamesColumn(reports[n].validation.errors, col)
            /\ "is_valid" \in DOMAIN reports[n].validation
            /\ reports[n].validation.is_valid = FALSE

(***************************************************************************)
(* normalize_csv of src/app/core/normalize.py, from the renamed table on   *)
(* (line 123): the table has the standard columns that the exchange        *)
(* mapping or the classifier found a source column for; its cells are      *)
(* already in canonical form (upper-case tickers, lower-case types,        *)
(* timestamps as day numbers).                                             *)
(***************************************************************************)
MaxInputRows == 2

\* lines 232-235
standard_cols ==
    <<"timestamp", "type", "base_asset", "base_amount", "quote_asset", "quote_amount",
      "fee_amount", "fee_asset", "notes">>

\* a cell without a value (None / NaN), in a numeric or timestamp column and in a
\* text column
NaN == 0 - 1
NoText == ""

EmptyCell(col) ==
    IF col \in {"timestamp", "base_amount", "quote_amount", "fee_amount"} THEN NaN ELSE NoText

\* the rows of the input files, all nine cells filled
InputRows ==
    {[timestamp |-> 1, type |-> "buy", base_asset |-> "BTC", base_amount |-> 3,
      quote_asset |-> "USD", quote_amount |-> 60, fee_amount |-> 0, fee_asset |-> "USD",
      notes |-> "n"],
     [timestamp |-> 1, type |-> "buy", base_asset |-> "ETH", base_amount |-> 3,
      quote_asset |-> "USD", quote_amount |-> 30, fee_amount |-> 1, fee_asset |-> "USD",
      notes |-> "n"],
     [timestamp |-> 0, type |-> "sell", base_asset |-> "ETH", base_amount |-> 2,
      quote_asset |-> "USD", quote_amount |-> 30, fee_amount |-> 1, fee_asset |-> "USD",
      notes |-> "n"]}

\* a row of a table that has the columns `cols` only
RowOf(row, cols) == [c \in DOMAIN row |-> IF c \in cols THEN row[c] ELSE EmptyCell(c)]

\* the column sets of the renamed table: any of the four required columns may
\* be without a source column
InputColumns ==
    {AllColumns \ missing : missing \in SUBSET {required_cols[c] : c \in 1..Len(required_cols)}}

\* the renamed tables with the columns `cols`, of up to MaxInputRows rows
InputTables(cols) ==
    UNION {[1..n -> {RowOf(row, cols) : row \in InputRows}] : n \in 0..MaxInputRows}

\* _parse_number, lines 197-220: a cell without a value becomes 0
_parse_number(x) == IF x = NaN THEN 0 ELSE x

\* lines 194-221: the numeric columns the table has are converted
ConvertNumbers(row, cols) ==
    [c \in DOMAIN row |->
        IF c \in {"base_amount", "quote_amount", "fee_amount"} /\ c \in cols
        THEN _parse_number(row[c]) ELSE row[c]]

\* line 243: drop_duplicates(subset=['timestamp', 'type', 'base_amount',
\* 'quote_asset']) keeps the first of the rows that agree on the four columns
drop_duplicates(rows) ==
    LET kept == {i \in 1..Len(rows) : ~\E j \in 1..(i - 1) :
                    /\ rows[j].timestamp = rows[i].timestamp
                    /\ rows[j].type = rows[i].type
                    /\ rows[j].base_amount = rows[i].base_amount
                    /\ rows[j].quote_asset = rows[i].quote_asset}
        index == SelectSeq([i \in 1..Len(rows) |-> i], LAMBDA i : i \in kept)
    IN [k \in 1..Len(index) |-> rows[index[k]]]

\* the order of the text cells of the model, cells without a value last
TextRank(text) ==
    CASE text = "BTC" -> 1 [] text = "ETH" -> 2 [] text = "buy" -> 1 [] text = "sell" -> 2
      [] OTHER -> 3

\* the order of the timestamps, cells without a value last
TimeRank(t) == IF t = NaN THEN 999 ELSE t

\* row a sorts before row b on ['timestamp', 'base_asset', 'type']
SortsBefore(a, b) ==
    \/ TimeRank(a.timestamp) < TimeRank(b.timestamp)
    \/ /\ a.timestamp = b.timestamp
       /\ \/ TextRank(a.base_asset) < TextRank(b.base_asset)
          \/ a.base_asset = b.base_asset /\ TextRank(a.type) < TextRank(b.type)

\* line 255: df.sort_values(sort_cols, kind='mergesort'), a stable sort
mergesort(rows) ==
    LET o == CHOOSE o \in OrdersOf(Len(rows)) :
                 \A i, j \in 1..Len(rows) :
                     i < j => \/ SortsBefore(rows[o[i]], rows[o[j]])
                              \/ ~SortsBefore(rows[o[j]], rows[o[i]]) /\ o[i] < o[j]
    IN [k \in 1..Len(rows) |-> rows[o[k]]]

\* normalize_csv, lines 79-263: whether it raises, and the file it writes
normalize_csv(rows, cols, remove_duplicates, output_dir) ==
    IF rows = <<>> THEN [raised |-> TRUE, file |-> NoFile]                    \* lines 79-80
    ELSE LET converted == [i \in 1..Len(rows) |-> ConvertNumbers(rows[i], cols)]
             \* lines 236-238: a standard column the table lacks is created with None
             filled  == [i \in 1..Len(rows) |-> RowOf(converted[i], AllColumns)]
             deduped == IF remove_duplicates THEN drop_duplicates(filled) ELSE filled
             \* lines 249-250: validate_df(df) is called and its report dropped
             sorted  == mergesort(deduped)
         IN IF output_dir = "" THEN [raised |-> TRUE, file |-> NoFile]           \* line 260
            ELSE [raised |-> FALSE,
                  file |-> [written |-> TRUE, columns |-> standard_cols, rows |-> sorted]]

\* normalize_csv(input_file, exchange, output_file, remove_duplicates)
NormalizeCsv ==
    /\ pc = "normalize"
    /\ \E remove_duplicates \in BOOLEAN : \E output_dir \in {"output", ""} :
          LET result == normalize_csv(df, columns, remove_duplicates, output_dir)
          IN /\ pc' = IF result.raised THEN "raised" ELSE "normalized"
             /\ output_file' = result.file
    /\ UNCHANGED <<method, inventories, gains_losses, income_events, total_short_term_gains,
                   total_long_term_gains, total_income, errors, df, order, pos, prices,
                   consumed, run, first_run, trail, inventory, calls, columns, reports,
                   call_args, call_result>>

InitNormalize ==
    /\ method = "fifo"
    /\ NewCalculator
    /\ pc = "normalize"
    /\ columns \in InputColumns
    /\ df \in InputTables(columns)
    /\ order = <<>>
    /\ pos = 0
    /\ prices = <<>>
    /\ run = 1
    /\ first_run = NoResult
    /\ trail = <<>>
    /\ InventoryIdle
    /\ reports = <<>>
    /\ output_file = NoFile
    /\ call_args = NoCall
    /\ call_result = NoCall

NextNormalize == NormalizeCsv

SpecNormalize == InitNormalize /\ [][NextNormalize]_vars

(***************************************************************************)
(* Claims about the normalizer (SpecNormalize)                             *)
(***************************************************************************)
\* C20: when one of timestamp, type, base_asset, base_amount has no source
\* column in the renamed table, normalize_csv raises and writes no output file
C20_Unnormalizable ==
    (pc \in {"normalized", "raised"} /\ MissingColumns # {}) =>
        (pc = "raised" /\ output_file = NoFile)

\* whenever normalize_csv raises, it has written no file
C20_NoFileWhenRaised == pc = "raised" => output_file = NoFile

UnitCostNow(lot) == <<lot.cost_basis, lot.amount>>

MantissaBits == 4

\* the float 1.0
One == 256

RECURSIVE BitLength(_)
BitLength(n) == IF n = 0 THEN 0 ELSE 1 + BitLength(n \div 2)

RECURSIVE Pow2(_)
Pow2(k) == IF k = 0 THEN 1 ELSE 2 * Pow2(k - 1)

\* the float nearest to num / den units, ties to even
RoundTo(num, den) ==
    LET e    == BitLength(num \div den)
        ulp  == IF e > MantissaBits THEN Pow2(e - MantissaBits) ELSE 1
        m    == num \div (den * ulp)
        rest == 2 * (num - m * den * ulp)
        up   == rest > den * ulp \/ (rest = den * ulp /\ m % 2 = 1)
    IN (IF up THEN m + 1 ELSE m) * ulp

\* u / v, u * v and u - v on floats
float_div(u, v) == RoundTo(u * One, v)
float_mul(u, v) == RoundTo(u * v, One)
float_sub(u, v) == RoundTo(u - v, 1)

\* the floats with significand m and exponent k
Floats(ms, ks) == {m * Pow2(k) : m \in ms, k \in ks}

\* amounts from 1.0 to 7.5 and costs from 8.0 to 30.0
FloatAmounts == Floats(Pow2(MantissaBits - 1)..(Pow2(MantissaBits) - 1), 5..7)
FloatCosts == Floats(Pow2(MantissaBits - 1)..(Pow2(MantissaBits) - 1), 8..9)

\* lines 94-104: the part taken from a lot and what the lot is mutated to
SplitLot(lot, taken_amount) ==
    LET taken_cost == float_mul(float_div(lot.cost_basis, lot.amount), taken_amount)
    IN [taken_lot |-> TaxLot(taken_amount, taken_cost, lot.acquisition_date,
                             lot.transaction_id),
        residual  |-> [lot EXCEPT !.amount = float_sub(@, taken_amount),
                                  !.cost_basis = float_sub(@, taken_cost)]]

\* remove_amount (lines 61-119) on an inventory that holds one lot and whose
\* aggregates are those of the lot
remove_amount_float(inv, m, amount) ==
    LET lot == inv.lots[1]
    IN IF lot.amount <= amount
       THEN [inv |-> [inv EXCEPT !.lots = <<>>,
                                 !.total_amount = float_sub(@, lot.amount),
                                 !.total_cost_basis = float_sub(@, lot.cost_basis)],
             removed_lots |-> <<[lot |-> lot, amount |-> lot.amount]>>]
       ELSE LET split == SplitLot(lot, amount)
            IN [inv |-> [inv EXCEPT !.lots = PutBack(<<>>, m, split.residual),
                                    !.total_amount = float_sub(@, amount),
                                    !.total_cost_basis =
                                        float_sub(@, split.taken_lot.cost_basis)],
                removed_lots |-> <<[lot |-> split.taken_lot, amount |-> amount]>>]

\* inventory.remove_amount(amount) on the inventory of one lot
RemoveFromLot ==
    /\ pc = "lot"
    /\ \E amount \in FloatAmounts :
          LET r == remove_amount_float(inventory, method, amount)
          IN /\ inventory' = r.inv
             /\ calls' = Append(calls, Call("remove_amount", amount, inventory,
                                            r.removed_lots, FALSE))
    /\ pc' = "removed"
    /\ UNCHANGED <<method, inventories, gains_losses, income_events, total_short_term_gains,
                   total_long_term_gains, total_income, errors, df, order, pos, prices,
                   consumed, run, first_run, trail>>
    /\ UNCHANGED validator_vars

\* inventory.add_lot(TaxLot(amount, cost_basis, date, id)) on the new inventory
InitSplit ==
    /\ method \in Methods
    /\ NewCalculator
    /\ pc = "lot"
    /\ df = <<>>
    /\ order = <<>>
    /\ pos = 0
    /\ prices = <<>>
    /\ run = 1
    /\ first_run = NoResult
    /\ trail = <<>>
    /\ \E amount \in FloatAmounts : \E cost_basis \in FloatCosts :
          inventory = add_lot(AssetInventory("BTC", method), method,
                              TaxLot(amount, cost_basis, 0, 0))
    /\ calls = <<>>
    /\ ValidatorIdle

NextSplit == RemoveFromLot

SpecSplit == InitSplit /\ [][NextSplit]_vars

(***************************************************************************)
(* Claims about the split of a lot (SpecSplit)                             *)
(***************************************************************************)
\* C26: when remove_amount takes x from a lot (a, c) with x < a, the sub-lot
\* returned is (x, c*x/a) with the lot's acquisition date and transaction id, the
\* residual held is (a-x, c*(a-x)/a), and the amounts and the cost bases of the
\* two add up exactly to a and c
C26_LotSplit ==
    \A i \in 1..Len(calls) :
        LET lot == calls[i].before.lots[1]
            x   == calls[i].amount
        IN x < lot.amount =>
              LET taken    == calls[i].removed_lots[1].lot
                  residual == inventory.lots[1]
              IN /\ taken.amount = x
                 /\ taken.cost_basis = RoundTo(lot.cost_basis * x, lot.amount)
                 /\ taken.acquisition_date = lot.acquisition_date
                 /\ taken.transaction_id = lot.transaction_id
                 /\ residual.amount = lot.amount - x
                 /\ residual.cost_basis
                       = RoundTo(lot.cost_basis * (lot.amount - x), lot.amount)
                 /\ taken.amount + residual.amount = lot.amount
                 /\ taken.cost_basis + residual.cost_basis = lot.cost_basis

\* the part of C26 that does not depend on rounding: the sub-lot has the amount
\* asked for and the date and id of the lot, and one residual lot is held
C26_SplitKeepsIdentity ==
    \A i \in 1..Len(calls) :
        LET lot == calls[i].before.lots[1]
        IN calls[i].amount < lot.amount =>
              /\ calls[i].removed_lots[1].lot.amount = calls[i].amount
              /\ calls[i].removed_lots[1].lot.acquisition_date = lot.acquisition_date
              /\ calls[i].removed_lots[1].lot.transaction_id = lot.transaction_id
              /\ Len(inventory.lots) = 1
              /\ inventory.lots[1].transaction_id = lot.transaction_id

\* the amounts alone already fail to add up
C26_AmountsAddUp ==
    \A i \in 1..Len(calls) :
        calls[i].amount < calls[i].before.lots[1].amount =>
            calls[i].removed_lots[1].lot.amount + inventory.lots[1].amount
                = calls[i].before.lots[1].amount

(***************************************************************************)
(* Claims about the lots the engine holds (SpecSigned, Spec)               *)
(***************************************************************************)
\* the lots held in the inventories, of every asset
LotsHeld ==
    UNION {{inventories[a].lots[i] : i \in 1..Len(inventories[a].lots)}
           : a \in DOMAIN inventories}

\* C29: after any sequence of records processed by the engine, every lot held in
\* every inventory has amount > 0
C29_PositiveLots == \A lot \in LotsHeld : lot.amount > 0

\* no buy, deposit, stake or airdrop record processed so far carries a negative
\* base_amount
NoNegativeAcquisition ==
    \A k \in 1..pos :
        RowAt(k).type \in {"buy", "deposit", "stake", "airdrop"} => RowAt(k).base_amount >= 0

\* C29 (amended): as long as no acquisition record carries a negative
\* base_amount, every lot held in every inventory has amount > 0
C29_PositiveLotsOfPositiveRecords == NoNegativeAcquisition => C29_PositiveLots

\* the second half of C29: no lot of amount zero is held, whatever was removed
C29_NoZeroResidual == \A lot \in LotsHeld : lot.amount # 0

\* C29 witness: without a negative acquisition, a sale has taken a lot of exactly
\* the amount sold, whole, and lots are still held
C29_Witness ==
    /\ NoNegativeAcquisition
    /\ LotsHeld # {}
    /\ \E k \in 1..pos :
          /\ RowAt(k).type = "sell"
          /\ trail[k].before.lots # <<>>
          /\ \E i \in 1..Len(trail[k].before.lots) :
                /\ trail[k].before.lots[i].amount = RowAt(k).base_amount
                /\ \A j \in 1..Len(trail[k].after.lots) :
                      trail[k].after.lots[j].transaction_id
                          # trail[k].before.lots[i].transaction_id
          /\ Len(trail[k].after.lots) = Len(trail[k].before.lots) - 1

(***************************************************************************)
(* The validator and the engine on one input: purchases, deposits, sales   *)
(* and withdrawals with positive amounts and a positive quote_amount, in   *)
(* timestamp order.                                                        *)
(***************************************************************************)
AgreeRows(t) ==
    {Row(t, "buy", "BTC", 3, Q, F), Row(t, "buy", "BTC", 5, Q, F),
     Row(t, "deposit", "BTC", 1, Q, F), Row(t, "sell", "BTC", 2, Q, F),
     Row(t, "sell", "BTC", 3, Q, F), Row(t, "sell", "BTC", 5, Q, F),
     Row(t, "withdraw", "BTC", 3, Q, F), Row(t, "buy", "ETH", 3, Q, F),
     Row(t, "sell", "ETH", 2, Q, F)}

AgreeSteps == {1}

AgreeNextRow == NextRow(UNION {AgreeRows(LastTimestamp + dt) : dt \in AgreeSteps})

NextAgree == AgreeNextRow \/ Finish

SpecAgree == Init /\ [][NextAgree]_vars

(***************************************************************************)
(* Claims about validator and engine together (SpecAgree)                  *)
(***************************************************************************)
\* check_balances' running balance of the asset after the first k records
RECURSIVE ValidatorBalance(_, _)
ValidatorBalance(asset, k) ==
    IF k = 0 THEN 0
    ELSE IF RowAt(k).base_asset = asset
    THEN BalanceAfter(ValidatorBalance(asset, k - 1), RowAt(k))
    ELSE ValidatorBalance(asset, k - 1)

\* check_balances lists no negative balance of the asset in the first k records
NoNegativeBalance(asset, k) ==
    \A j \in 1..k : RowAt(j).base_asset = asset => ~(ValidatorBalance(asset, j) < 0 - EPS)

\* the total_amount of the engine's inventory of the asset
EngineTotal(asset) == InventoryOf(inventories, asset).total_amount

\* the sell and withdraw records of the asset among the first k records
Removals(asset, k) ==
    Cardinality({j \in 1..k : /\ RowAt(j).base_asset = asset
                              /\ RowAt(j).type \in {"sell", "withdraw"}})

\* C30 (as claimed): after every prefix in which the validator has reported no
\* negative balance for an asset, its running balance for the asset equals the
\* total_amount of the engine's inventory
C30_Agreement ==
    \A asset \in AssetsSeen :
        NoNegativeBalance(asset, pos) => ValidatorBalance(asset, pos) = EngineTotal(asset)

\* C30 (amended): after such a prefix the engine's total_amount is at least the
\* validator's balance and exceeds it by at most 1e-8 per sell or withdraw
\* record of the asset
C30_AgreementWithinTolerance ==
    \A asset \in AssetsSeen :
        NoNegativeBalance(asset, pos) =>
            /\ ValidatorBalance(asset, pos) <= EngineTotal(asset)
            /\ EngineTotal(asset) <= ValidatorBalance(asset, pos) + EPS * Removals(asset, pos)

\* C30 witness: no negative balance was reported for BTC, a sale split a lot and
\* a later sale of 1e-8 took nothing, so that the two differ by 1e-8
C30_Witness ==
    /\ pos = 3
    /\ NoNegativeBalance("BTC", pos)
    /\ RowAt(2).type = "sell" /\ RowAt(2).base_amount = 3
    /\ RowAt(3).type = "sell" /\ RowAt(3).base_amount = EPS
    /\ ValidatorBalance("BTC", 2) = EngineTotal("BTC")
    /\ EngineTotal("BTC") = ValidatorBalance("BTC", pos) + EPS

(***************************************************************************)
(* Function-level runs: one call of one function.  call_args holds the     *)
(* arguments, call_result what the call returned; the calculator, the      *)
(* validator and the normalizer are idle.                                  *)
(***************************************************************************)

\* the state in which function `name` is about to be called with `args`
Calling(name, args) ==
    /\ method = "fifo"
    /\ NewCalculator
    /\ pc = name
    /\ df = <<>>
    /\ order = <<>>
    /\ pos = 0
    /\ prices = <<>>
    /\ run = 1
    /\ first_run = NoResult
    /\ trail = <<>>
    /\ InventoryIdle
    /\ columns = {}
    /\ reports = <<>>
    /\ output_file = NoFile
    /\ call_args = args
    /\ call_result = NoCall

\* the call of function `name` returns `result`
Returns(name, result) ==
    /\ pc' = "returned"
    /\ call_result' = [function |-> name, result |-> result]
    /\ UNCHANGED <<method, inventories, gains_losses, income_events, total_short_term_gains,
                   total_long_term_gains, total_income, errors, df, order, pos, prices,
                   consumed, run, first_run, trail, inventory, calls, columns, reports,
                   output_file, call_args>>

\* the call of function `name` has returned
HasReturned(name) == pc = "returned" /\ call_result.function = name

(***************************************************************************)
(* ColumnMapper.predict_mapping (src/app/core/ml_mapper.py, lines 101-128) *)
(*                                                                         *)
(* Columns are their indices in `columns` (pandas keeps the column names   *)
(* of a file distinct, so a name and an index identify the same column).   *)
(* Probabilities are written in tenths.  A row of the matrix comes from    *)
(* LogisticRegression.predict_proba, so its entries sum to one; the model  *)
(* keeps the first labels of self.labels, whose entries sum to at most one.*)
(***************************************************************************)

\* len(columns) is at most MaxColumns
MaxColumns == 2

\* self.labels (lines 16-19), its first three labels
labels == <<"timestamp", "type", "base_asset">>

\* the probabilities an entry of predict_proba takes, in tenths
Probabilities == {0, 4, 5, 6, 9}

\* the sum of row `row` of the matrix over the first k labels
RECURSIVE RowSum(_, _)
RowSum(row, k) == IF k = 0 THEN 0 ELSE row[labels[k]] + RowSum(row, k - 1)

\* the rows predict_proba can return for one column
ProbabilityRows ==
    {row \in [{labels[k] : k \in 1..Len(labels)} -> Probabilities] :
        RowSum(row, Len(labels)) <= 10}

\* the matrices predict_proba can return for n columns
ProbabilityMatrices(n) == [1..n -> ProbabilityRows]

\* the values of the parameter threshold, in tenths (0.8 is the default)
Thresholds == {3, 6, 8}

\* lines 109-114: the pairs (p, i, lbl) with p >= 0.5, by column and then by label
CandidatePairs(probs) ==
    LET n == Len(probs)
        L == Len(labels)
        all == [k \in 1..(n * L) |->
                   LET i == ((k - 1) \div L) + 1
                       lbl == labels[((k - 1) % L) + 1]
                   IN [p |-> probs[i][lbl], ci |-> i, lbl |-> lbl]]
    IN SelectSeq(all, LAMBDA pair : pair.p >= 5)

\* a sort that puts a pair before the pairs of equal probability already placed
InsertPair_before(sorted, pair) ==
    LET k == Cardinality({j \in 1..Len(sorted) : sorted[j].p > pair.p})
    IN SubSeq(sorted, 1, k) \o <<pair>> \o SubSeq(sorted, k + 1, Len(sorted))

\* the place of one pair in the stable descending order: after every pair placed
\* earlier whose probability is not smaller
InsertPair(sorted, pair) ==
    LET k == Cardinality({j \in 1..Len(sorted) : sorted[j].p >= pair.p})
    IN SubSeq(sorted, 1, k) \o <<pair>> \o SubSeq(sorted, k + 1, Len(sorted))

\* line 115: pairs.sort(reverse=True, key=lambda x: x[0]), a stable sort
RECURSIVE SortPairs(_, _)
SortPairs(pairs, k) ==
    IF k = 0 THEN <<>> ELSE InsertPair(SortPairs(pairs, k - 1), pairs[k])

\* lines 116-127: the greedy loop over pairs[k..], result in insertion order
RECURSIVE AssignPairs(_, _, _, _, _, _)
AssignPairs(pairs, k, assigned_cols, assigned_lbls, result, threshold) ==
    IF k > Len(pairs) THEN result
    ELSE LET pair == pairs[k]
         IN IF pair.ci \in assigned_cols \/ pair.lbl \in assigned_lbls
            THEN AssignPairs(pairs, k + 1, assigned_cols, assigned_lbls, result, threshold)
            ELSE IF pair.p < threshold
            THEN AssignPairs(pairs, k + 1, assigned_cols, assigned_lbls, result, threshold)
            ELSE AssignPairs(pairs, k + 1, assigned_cols \cup {pair.ci},
                             assigned_lbls \cup {pair.lbl}, Append(result, pair), threshold)

\* predict_mapping(columns, threshold): the entries of the returned dict, in the
\* order in which they were inserted
predict_mapping(probs, threshold) ==
    LET pairs == CandidatePairs(probs)
    IN AssignPairs(SortPairs(pairs, Len(pairs)), 1, {}, {}, <<>>, threshold)

\* mapper.predict_mapping(columns, threshold)
PredictMapping ==
    /\ pc = "predict_mapping"
    /\ Returns("predict_mapping", predict_mapping(call_args.probs, call_args.threshold))

InitMapping ==
    \E n \in 1..MaxColumns : \E probs \in ProbabilityMatrices(n) :
       \E threshold \in Thresholds :
          Calling("predict_mapping", [function |-> "predict_mapping", probs |-> probs,
                                      threshold |-> threshold])

NextMapping == PredictMapping

SpecMapping == InitMapping /\ [][NextMapping]_vars

(***************************************************************************)
(* Claims about predict_mapping (SpecMapping)                              *)
(***************************************************************************)

\* the pair of column ci and label lbl is among the first k entries of result
Among(result, k, ci, lbl) ==
    \E j \in 1..k : result[j].ci = ci /\ result[j].lbl = lbl

\* pair (p1, c1) is taken before pair (p2, c2): its probability is higher, or the
\* probabilities are equal and its column comes first
TakenBefore(p1, c1, p2, c2) == p1 > p2 \/ (p1 = p2 /\ c1 < c2)

\* C28: for any probability matrix and threshold t, predict_mapping returns an
\* assignment in which no column appears twice, no label is given to two columns
\* and every accepted pair has probability >= t and is an entry of the matrix;
\* the pairs are assigned in descending order of probability, pairs of equal
\* probability in column-index order, and a candidate pair (p >= 0.5 and p >= t)
\* is left out only when its column or its label went to a pair that is taken
\* before it or that shares its column and its probability.
C28_ClassifierAssignment ==
    HasReturned("predict_mapping") =>
        LET result == call_result.result
            probs == call_args.probs
            t == call_args.threshold
        IN /\ \A j, k \in 1..Len(result) :
                 j # k => result[j].ci # result[k].ci /\ result[j].lbl # result[k].lbl
           /\ \A j \in 1..Len(result) :
                 /\ result[j].p >= t
                 /\ result[j].ci \in 1..Len(probs)
                 /\ result[j].p = probs[result[j].ci][result[j].lbl]
           /\ \A j, k \in 1..Len(result) :
                 j < k => TakenBefore(result[j].p, result[j].ci, result[k].p, result[k].ci)
           /\ \A ci \in 1..Len(probs) : \A l \in 1..Len(labels) :
                 LET p == probs[ci][labels[l]]
                 IN (p >= 5 /\ p >= t /\ ~Among(result, Len(result), ci, labels[l])) =>
                       \E j \in 1..Len(result) :
                          /\ result[j].ci = ci \/ result[j].lbl = labels[l]
                          /\ \/ TakenBefore(result[j].p, result[j].ci, p, ci)
                             \/ result[j].p = p /\ result[j].ci = ci

\* two columns offer the same label with the same probability, the first column
\* got it and the second one got another label later
C28_Witness ==
    /\ HasReturned("predict_mapping")
    /\ Len(call_args.probs) = 2
    /\ call_args.probs[1]["timestamp"] = 5
    /\ call_args.probs[2]["timestamp"] = 5
    /\ call_args.probs[2]["type"] = 5
    /\ Len(call_result.result) = 2
    /\ call_result.result[1].ci = 1
    /\ call_result.result[1].lbl = "timestamp"
    /\ call_result.result[2].ci = 2
    /\ call_result.result[2].lbl = "type"

(***************************************************************************)
(* parse_pair (src/app/core/normalize.py, lines 267-301)                   *)
(*                                                                         *)
(* A string is the sequence of its characters.                             *)
(***************************************************************************)

\* a ticker has at most MaxTickerLen characters
MaxTickerLen == 2

\* the characters of a ticker
TickerChars == {"X", "Z", "B", "1"}

\* the tickers: the non-empty strings of ticker characters
Tickers == UNION {[1..n -> TickerChars] : n \in 1..MaxTickerLen}

\* the canonical separators
Separators == {"/", "-", "_"}

\* Python's None, which is no string
None == <<"None">>

\* str.strip()
RECURSIVE strip(_)
strip(str) ==
    IF str = <<>> THEN str
    ELSE IF Head(str) = " " THEN strip(Tail(str))
    ELSE IF str[Len(str)] = " " THEN strip(SubSeq(str, 1, Len(str) - 1))
    ELSE str

\* str.split(sep, 1) of a string that contains sep
split(str, sep) ==
    LET k == CHOOSE j \in 1..Len(str) :
                 str[j] = sep /\ \A i \in 1..(j - 1) : str[i] # sep
    IN <<SubSeq(str, 1, k - 1), SubSeq(str, k + 1, Len(str))>>

\* str.endswith(suffix)
endswith(str, suffix) ==
    /\ Len(suffix) <= Len(str)
    /\ SubSeq(str, Len(str) - Len(suffix) + 1, Len(str)) = suffix

\* line 294
common_quotes ==
    << <<"U", "S", "D">>, <<"U", "S", "D", "T">>, <<"U", "S", "D", "C">>, <<"E", "U", "R">>,
       <<"G", "B", "P">>, <<"B", "T", "C">>, <<"E", "T", "H">> >>

\* lines 283-284 without the removal of the prefix
WithoutPrefix_kept(str) == str

\* lines 282-284: "Remove Kraken's X/Z prefixes"
WithoutPrefix(str) ==
    IF str # <<>> /\ Head(str) \in {"X", "Z"} THEN Tail(str) ELSE str

\* lines 287-291: the first of '/', '-', '_' that occurs in the string, if any
FirstSeparator(str) ==
    LET occurs(sep) == \E j \in 1..Len(str) : str[j] = sep
    IN IF occurs("/") THEN "/" ELSE IF occurs("-") THEN "-"
       ELSE IF occurs("_") THEN "_" ELSE ""

\* lines 294-298: the first common quote the string ends with, if any
RECURSIVE QuoteSuffix(_, _)
QuoteSuffix(str, k) ==
    IF k > Len(common_quotes) THEN <<>>
    ELSE IF endswith(str, common_quotes[k]) /\ Len(str) > Len(common_quotes[k])
    THEN common_quotes[k]
    ELSE QuoteSuffix(str, k + 1)

\* parse_pair(pair): the tuple (base_asset, quote_asset)
parse_pair(pair) ==
    IF pair = None \/ pair = <<>> THEN <<None, None>>
    ELSE LET str == WithoutPrefix(strip(pair))
             sep == FirstSeparator(str)
             quote == QuoteSuffix(str, 1)
         IN IF sep # ""
            THEN <<strip(split(str, sep)[1]), strip(split(str, sep)[2])>>
            ELSE IF quote # <<>>
            THEN <<SubSeq(str, 1, Len(str) - Len(quote)), quote>>
            ELSE <<str, None>>

\* the pair string of a base and a quote ticker joined by a separator
serialize(base, sep, quote) == base \o <<sep>> \o quote

\* parse_pair(base + sep + quote)
ParsePair ==
    /\ pc = "parse_pair"
    /\ Returns("parse_pair", parse_pair(call_args.pair))

InitPair ==
    \E base \in Tickers : \E quote \in Tickers : \E sep \in Separators :
       Calling("parse_pair", [function |-> "parse_pair", base |-> base, quote |-> quote,
                              sep |-> sep, pair |-> serialize(base, sep, quote)])

NextPair == ParsePair

SpecPair == InitPair /\ [][NextPair]_vars

(***************************************************************************)
(* Claims about parse_pair (SpecPair)                                      *)
(***************************************************************************)

\* C22: for every base ticker, every quote ticker and each separator '/', '-', '_',
\* parse_pair(base + separator + quote) returns (base, quote).
C22_RoundTrip ==
    HasReturned("parse_pair") =>
        call_result.result = <<call_args.base, call_args.quote>>

\* the round trip holds for the bases that begin with neither 'X' nor 'Z'
C22_RoundTripWithoutPrefix ==
    (HasReturned("parse_pair") /\ Head(call_args.base) \notin {"X", "Z"}) =>
        call_result.result = <<call_args.base, call_args.quote>>

\* a base that begins with 'X' or 'Z' comes back without its first character
C22_PrefixLost ==
    (HasReturned("parse_pair") /\ Head(call_args.base) \in {"X", "Z"}) =>
        call_result.result = <<Tail(call_args.base), call_args.quote>>

(***************************************************************************)
(* ReportGenerator.generate_turbotax_report (src/src/report.py,            *)
(* lines 33-82)                                                            *)
(*                                                                         *)
(* A row of gains_losses.csv is its sale date and its position in the      *)
(* file; the other columns are copied and play no part in the order.  A    *)
(* formatted date is the sequence of the character codes of its text.      *)
(***************************************************************************)

\* gains_losses.csv has at most MaxEvents rows
MaxEvents == 3

\* the sale dates of the disposal events
SaleDates == [year : {2023, 2024}, month : {1, 12}, day : {5, 15}]

\* the files gains_losses.csv: the sale date of each row, in file order
GainsFiles == UNION {[1..n -> SaleDates] : n \in 0..MaxEvents}

\* the character codes of the decimal digits of n, zero-padded to `width` characters
RECURSIVE ZeroPadded(_, _)
ZeroPadded(n, width) ==
    IF width = 0 THEN <<>> ELSE Append(ZeroPadded(n \div 10, width - 1), 48 + (n % 10))

\* line 64: pd.to_datetime(date).dt.strftime('%m/%d/%Y'), e.g. "12/31/2023"
strftime(date) ==
    ZeroPadded(date.month, 2) \o <<47>> \o ZeroPadded(date.day, 2) \o <<47>>
        \o ZeroPadded(date.year, 4)

\* a key that orders the rows by the date itself
SortKey_date(date) == ZeroPadded(date.year, 4) \o ZeroPadded(date.month, 2)
                          \o ZeroPadded(date.day, 2)

\* line 74: the values of the column 'Date Sold', on which the rows are sorted
SortKey(date) == strftime(date)

\* the order of Python strings: the first differing character decides, a proper
\* prefix comes first
RECURSIVE StringLE(_, _)
StringLE(a, b) ==
    IF a = <<>> THEN TRUE
    ELSE IF b = <<>> THEN FALSE
    ELSE IF Head(a) # Head(b) THEN Head(a) < Head(b)
    ELSE StringLE(Tail(a), Tail(b))

\* lines 61-71: the rows of the TurboTax table, in file order
TurboTaxRows(file) ==
    [k \in 1..Len(file) |-> [Date_Sold |-> strftime(file[k]), date |-> file[k], index |-> k]]

\* line 74: the orders sort_values('Date Sold') can leave the rows in; the default
\* sort is not stable, so rows of equal 'Date Sold' come out in any order
sort_by_date_sold(rows) ==
    {[k \in 1..Len(rows) |-> rows[ord[k]]] : ord \in
        {o \in OrdersOf(Len(rows)) :
            \A k \in 1..(Len(rows) - 1) :
               StringLE(SortKey(rows[o[k]].date), SortKey(rows[o[k + 1]].date))}}

\* generate_turbotax_report(gains_file, output_file): the rows of turbotax_import.csv;
\* no file is written for an empty gains file (lines 56-58)
GenerateTurbotaxReport ==
    /\ pc = "generate_turbotax_report"
    /\ IF call_args.file = <<>>
       THEN Returns("generate_turbotax_report", [written |-> FALSE, rows |-> <<>>])
       ELSE \E sorted \in sort_by_date_sold(TurboTaxRows(call_args.file)) :
               Returns("generate_turbotax_report", [written |-> TRUE, rows |-> sorted])

InitReport ==
    \E file \in GainsFiles :
       Calling("generate_turbotax_report",
               [function |-> "generate_turbotax_report", file |-> file])

NextReport == GenerateTurbotaxReport

SpecReport == InitReport /\ [][NextReport]_vars

(***************************************************************************)
(* Claims about the TurboTax export (SpecReport)                           *)
(***************************************************************************)

\* date a is not later than date b
NotLater(a, b) ==
    \/ a.year < b.year
    \/ a.year = b.year /\ a.month < b.month
    \/ a.year = b.year /\ a.month = b.month /\ a.day <= b.day

\* C24: the rows of turbotax_import.csv are in ascending order of the sale date,
\* for any set of disposal events, including events whose sale dates fall in
\* different years.
C24_ExportOrder ==
    HasReturned("generate_turbotax_report") =>
        LET rows == call_result.result.rows
        IN \A k \in 1..(Len(rows) - 1) : NotLater(rows[k].date, rows[k + 1].date)

\* the rows are in ascending order of the sale date when all sales fall in one year
C24_ExportOrderWithinYear ==
    (HasReturned("generate_turbotax_report") /\
     \A j, k \in 1..Len(call_args.file) : call_args.file[j].year = call_args.file[k].year) =>
        LET rows == call_result.result.rows
        IN \A k \in 1..(Len(rows) - 1) : NotLater(rows[k].date, rows[k + 1].date)

\* the rows are in ascending order of the text of 'Date Sold', and they are the
\* rows of the gains file
C24_ExportOrderOfText ==
    HasReturned("generate_turbotax_report") =>
        LET rows == call_result.result.rows
        IN /\ Len(rows) = Len(call_args.file)
           /\ \A k \in 1..Len(call_args.file) : \E j \in 1..Len(rows) : rows[j].index = k
           /\ \A k \in 1..(Len(rows) - 1) :
                 StringLE(rows[k].Date_Sold, rows[k + 1].Date_Sold)

(***************************************************************************)
(* ExchangeDetector.detect_exchange, scan_input_folder and                 *)
(* auto_process_input_folder (src/app/core/auto_detect.py)                 *)
(*                                                                         *)
(* One readable file is in the input folder.  Scores are written in        *)
(* hundredths; what _calculate_match_score returns for each exchange       *)
(* mapping is an input, any value between 0 and 1 (lines 219-243 cap it at *)
(* 1.0).  The score levels differ by other amounts than exactly 0.05, so   *)
(* the rounding of abs(score - best_score) plays no part.                  *)
(***************************************************************************)

\* self.exchange_mappings has at most MaxExchanges entries
MaxExchanges == 3

\* the keys of self.exchange_mappings, in the order of the mappings file
exchange_mappings == <<"binance", "kucoin", "kraken", "gemini", "okx">>

\* the values of _calculate_match_score, in hundredths
MatchScores == {0, 50, 53, 87, 91, 94, 100}

\* line 23
confidence_threshold == 90

\* abs(x)
abs(x) == IF x < 0 THEN 0 - x ELSE x

\* the place of one item in the stable descending order of the scores
InsertScore(sorted, item) ==
    LET k == Cardinality({j \in 1..Len(sorted) : sorted[j].score >= item.score})
    IN SubSeq(sorted, 1, k) \o <<item>> \o SubSeq(sorted, k + 1, Len(sorted))

\* line 111: sorted(scores.items(), key=lambda x: x[1], reverse=True)
RECURSIVE SortScores(_, _)
SortScores(scores, k) ==
    IF k = 0 THEN <<>>
    ELSE InsertScore(SortScores(scores, k - 1),
                     [exchange |-> exchange_mappings[k], score |-> scores[k]])

\* line 112-113 with a confidence that is kept below the threshold on a tie
Confidence_capped(best_score, ties) ==
    IF Len(ties) > 1 /\ best_score >= confidence_threshold
    THEN confidence_threshold - 1 ELSE best_score

\* lines 112-113 and 134: the confidence returned is the best score
Confidence(best_score, ties) == best_score

\* detect_exchange(file_path) for the scores of the exchange mappings (lines 103-134);
\* has_ties tells whether the details carry the key "ties"
detect_exchange(scores) ==
    IF \A k \in 1..Len(scores) : scores[k] = 0
    THEN [exchange |-> "unknown", confidence |-> 0, has_ties |-> FALSE, ties |-> <<>>]
    ELSE LET sorted_scores == SortScores(scores, Len(scores))
             best_exchange == sorted_scores[1].exchange
             best_score == sorted_scores[1].score
             tied == SelectSeq(sorted_scores,
                               LAMBDA item : abs(item.score - best_score) < 5 /\ item.score > 50)
             ties == [k \in 1..Len(tied) |-> tied[k].exchange]
         IN [exchange |-> best_exchange, confidence |-> Confidence(best_score, ties),
             has_ties |-> Len(ties) > 1, ties |-> IF Len(ties) > 1 THEN ties ELSE <<>>]

\* lines 482-491: the result of scan_input_folder for the file
scan_input_folder(scores) ==
    LET detected == detect_exchange(scores)
    IN [detected_exchange |-> detected.exchange, confidence |-> detected.confidence,
        has_ties |-> detected.has_ties, ties |-> detected.ties,
        needs_confirmation |-> detected.confidence < confidence_threshold]

\* lines 544-598: what auto_process_input_folder does with the file: whether it asks
\* the user, and the exchange it hands to normalize_csv; user_input is what the
\* user types when asked ("" for Enter)
auto_process_input_folder(scores, interactive, ml_fallback, user_input) ==
    LET detection == scan_input_folder(scores)
        low == detection.needs_confirmation \/ detection.detected_exchange = "unknown"
        asked == ~(ml_fallback /\ low) /\ interactive /\ low
        known == \E k \in 1..Len(scores) : exchange_mappings[k] = user_input
        confirmed_exchange ==
            IF ml_fallback /\ low THEN "ml"
            ELSE IF asked /\ user_input # "" /\ known THEN user_input
            ELSE detection.detected_exchange
    IN [detection |-> detection, asked |-> asked, exchange_used |-> confirmed_exchange]

\* auto_process_input_folder(input_dir, output_dir, interactive, ml_fallback)
AutoProcessInputFolder ==
    /\ pc = "auto_process_input_folder"
    /\ \E user_input \in {"", "kucoin", "bitmex"} :
          Returns("auto_process_input_folder",
                  auto_process_input_folder(call_args.scores, call_args.interactive,
                                            call_args.ml_fallback, user_input))

InitDetect ==
    \E n \in 1..MaxExchanges : \E scores \in [1..n -> MatchScores] :
       \E interactive \in BOOLEAN : \E ml_fallback \in BOOLEAN :
          Calling("auto_process_input_folder",
                  [function |-> "auto_process_input_folder", scores |-> scores,
                   interactive |-> interactive, ml_fallback |-> ml_fallback])

NextDetect == AutoProcessInputFolder

SpecDetect == InitDetect /\ [][NextDetect]_vars

(***************************************************************************)
(* Claims about the detection of the exchange (SpecDetect)                 *)
(***************************************************************************)

\* the best of the scores
BestScore(scores) ==
    CHOOSE b \in {scores[k] : k \in 1..Len(scores)} : \A k \in 1..Len(scores) : scores[k] <= b

\* the exchanges whose score is within 0.05 of the best score and above 0.5
CloseToBest(scores) ==
    {exchange_mappings[k] : k \in {j \in 1..Len(scores) :
        BestScore(scores) - scores[j] < 5 /\ scores[j] > 50}}

\* C23: whenever detect_exchange finds two or more exchanges whose scores are within
\* 0.05 of the best score and above 0.5, the result carries a ties diagnostic listing
\* them, its confidence is below 0.9, the file is flagged needs_confirmation, and
\* auto-processing asks for confirmation before normalizing the file.
C23_DetectionTie ==
    (HasReturned("auto_process_input_folder") /\
     Cardinality(CloseToBest(call_args.scores)) >= 2) =>
        LET detection == call_result.result.detection
        IN /\ detection.has_ties
           /\ {detection.ties[k] : k \in 1..Len(detection.ties)} = CloseToBest(call_args.scores)
           /\ detection.confidence < 90
           /\ detection.needs_confirmation
           /\ call_result.result.asked

\* on such a tie the result carries a ties diagnostic listing the exchanges, and the
\* file is flagged needs_confirmation exactly when its confidence is below 0.9
C23_TiesListed ==
    (HasReturned("auto_process_input_folder") /\
     Cardinality(CloseToBest(call_args.scores)) >= 2) =>
        LET detection == call_result.result.detection
        IN /\ detection.has_ties
           /\ {detection.ties[k] : k \in 1..Len(detection.ties)} = CloseToBest(call_args.scores)
           /\ detection.confidence = BestScore(call_args.scores)
           /\ detection.needs_confirmation <=> detection.confidence < 90

\* on such a tie with a best score below 0.9, interactive auto-processing without
\* the ML fallback asks for confirmation
C23_TieBelowThreshold ==
    (HasReturned("auto_process_input_folder") /\
     Cardinality(CloseToBest(call_args.scores)) >= 2 /\
     BestScore(call_args.scores) < 90 /\
     call_args.interactive /\ ~call_args.ml_fallback) =>
        /\ call_result.result.detection.needs_confirmation
        /\ call_result.result.asked

\* interactive auto-processing without the ML fallback, on a tie at 0.94 and 0.91,
\* did not ask and used the first exchange
C23_TieNotConfirmed ==
    /\ HasReturned("auto_process_input_folder")
    /\ call_args.scores = <<94, 91>>
    /\ call_args.interactive /\ ~call_args.ml_fallback
    /\ call_result.result.detection.ties = <<"binance", "kucoin">>
    /\ ~call_result.result.asked
    /\ call_result.result.exchange_used = "binance"

(***************************************************************************)
(* normalize_csv of src/app/core/normalize.py on a file that is already in *)
(* canonical form, cell by cell (lines 123-261)                            *)
(*                                                                         *)
(* The file has the nine standard columns under their standard names, so   *)
(* the rename table of the exchange mapping names no column of the file;   *)
(* the classifier is taken to leave the standard names alone, and no       *)
(* column name holds a pair keyword (lines 131-162 find no candidate).     *)
(* A text cell is the sequence of its characters, the empty sequence for   *)
(* an empty cell; a timestamp cell is the sequence of its character codes; *)
(* a numeric cell is its value.                                            *)
(***************************************************************************)

\* a canonical file has at most MaxCanonicalRows rows
MaxCanonicalRows == 2

\* the characters of the text cells, in the order of their code points
ascii ==
    <<"1", "B", "C", "D", "E", "I", "N", "O", "P", "R", "S", "T", "U", "X", "Y", "Z",
      "b", "d", "e", "i", "n", "o", "p", "s", "t", "u", "y">>

\* the place of a character in the order of the code points
ord(ch) == CHOOSE k \in 1..Len(ascii) : ascii[k] = ch

\* the lower-case letters and their upper-case letters
Lowercase ==
    [b |-> "B", d |-> "D", e |-> "E", i |-> "I", n |-> "N", o |-> "O", p |-> "P", s |-> "S",
     t |-> "T", u |-> "U", y |-> "Y"]

\* str.upper()
upper(str) ==
    [k \in 1..Len(str) |-> IF str[k] \in DOMAIN Lowercase THEN Lowercase[str[k]] ELSE str[k]]

\* str.lower()
lower(str) ==
    [k \in 1..Len(str) |->
        IF \E c \in DOMAIN Lowercase : Lowercase[c] = str[k]
        THEN CHOOSE c \in DOMAIN Lowercase : Lowercase[c] = str[k]
        ELSE str[k]]

\* the order of Python strings on text cells
RECURSIVE TextLess(_, _)
TextLess(a, b) ==
    IF b = <<>> THEN FALSE
    ELSE IF a = <<>> THEN TRUE
    ELSE IF Head(a) # Head(b) THEN ord(Head(a)) < ord(Head(b))
    ELSE TextLess(Tail(a), Tail(b))

\* the number written by the decimal digits `codes`
RECURSIVE DecimalValue(_)
DecimalValue(codes) ==
    IF codes = <<>> THEN 0
    ELSE 10 * DecimalValue(SubSeq(codes, 1, Len(codes) - 1)) + (codes[Len(codes)] - 48)

\* "T00:00:00"
Midnight == <<84, 48, 48, 58, 48, 48, 58, 48, 48>>

\* datetime.isoformat() of midnight of a date, e.g. "2024-01-05T00:00:00"
isoformat(date) ==
    ZeroPadded(date.year, 4) \o <<45>> \o ZeroPadded(date.month, 2) \o <<45>>
        \o ZeroPadded(date.day, 2) \o Midnight

\* dateutil's parser.parse of an ISO 8601 text of midnight of a date
parse(text) ==
    [year |-> DecimalValue(SubSeq(text, 1, 4)), month |-> DecimalValue(SubSeq(text, 6, 7)),
     day |-> DecimalValue(SubSeq(text, 9, 10))]

\* lines 177-190
_safe_parse_ts(x) == IF x = None THEN None ELSE isoformat(parse(x))

\* the text columns
text_cols == {"type", "base_asset", "quote_asset", "fee_asset", "notes"}

\* pd.read_csv: an empty cell is NaN
read_csv(file) ==
    [i \in 1..Len(file) |->
        [c \in DOMAIN file[i] |->
            IF c \in text_cols \cup {"timestamp"} /\ file[i][c] = <<>> THEN None
            ELSE file[i][c]]]

\* df[standard_cols].to_csv: None and NaN are written as empty cells
to_csv(rows) ==
    [i \in 1..Len(rows) |->
        [c \in DOMAIN rows[i] |->
            IF c \in text_cols \cup {"timestamp"} /\ rows[i][c] = None THEN <<>>
            ELSE rows[i][c]]]

\* lines 165-166 with the cells of fee_asset kept when the column has values
FeeAssetDefault_kept(row, mapping) == row

\* lines 165-166: without a mapped fee_asset, fee_asset is overwritten by quote_asset
FeeAssetDefault(row, mapping) ==
    IF mapping.fee_asset \in {"None"} THEN [row EXCEPT !.fee_asset = row.quote_asset] ELSE row

\* lines 169-170: for the exchanges with pair columns, base_asset and quote_asset are
\* replaced by parse_pair(base_asset)
exchange_pairs == {"kraken", "bitfinex", "bitstamp", "bittrex", "htx"}

ParsePairs(row, exchange) ==
    IF exchange \in exchange_pairs
    THEN [row EXCEPT !.base_asset = parse_pair(row.base_asset)[1],
                     !.quote_asset = parse_pair(row.base_asset)[2]]
    ELSE row

\* lines 171-173: str(x).strip().upper() of the ticker cells that have a value
NormalizeTickers(row) ==
    [c \in DOMAIN row |->
        IF c \in {"base_asset", "quote_asset", "fee_asset"} /\ row[c] # None
        THEN upper(strip(row[c])) ELSE row[c]]

\* lines 176-229: timestamps, numbers and types
ConvertCells(row) ==
    [row EXCEPT !.timestamp = _safe_parse_ts(@),
                !.base_amount = _parse_number(@),
                !.quote_amount = _parse_number(@),
                !.fee_amount = _parse_number(@),
                !.type = IF @ = None THEN None ELSE lower(@)]

\* timestamp cell a comes before timestamp cell b: NaN is last
TimeLess(a, b) ==
    IF a = None THEN FALSE ELSE IF b = None THEN TRUE ELSE a # b /\ StringLE(a, b)

\* text cell a comes before text cell b: NaN is last
CellLess(a, b) ==
    IF a = None THEN FALSE ELSE IF b = None THEN TRUE ELSE TextLess(a, b)

\* row a comes before row b on ['timestamp', 'base_asset', 'type']
RowLess(a, b) ==
    \/ TimeLess(a.timestamp, b.timestamp)
    \/ /\ a.timestamp = b.timestamp
       /\ \/ CellLess(a.base_asset, b.base_asset)
          \/ a.base_asset = b.base_asset /\ CellLess(a.type, b.type)

\* the place of one row in the stable order: after the rows placed earlier that do
\* not come after it
InsertRow(sorted, row) ==
    LET k == Cardinality({j \in 1..Len(sorted) : ~RowLess(row, sorted[j])})
    IN SubSeq(sorted, 1, k) \o <<row>> \o SubSeq(sorted, k + 1, Len(sorted))

\* line 255: df.sort_values(sort_cols, kind='mergesort')
RECURSIVE SortRows(_, _)
SortRows(rows, k) == IF k = 0 THEN <<>> ELSE InsertRow(SortRows(rows, k - 1), rows[k])

\* normalize_csv(input_file, exchange, output_file) with remove_duplicates and
\* fetch_missing_prices left at False: the rows of the file it writes
normalize_rows(file, exchange, mapping) ==
    LET df0 == read_csv(file)
        cells == [i \in 1..Len(df0) |->
                     ConvertCells(NormalizeTickers(ParsePairs(FeeAssetDefault(df0[i], mapping),
                                                              exchange)))]
    IN to_csv(SortRows(cells, Len(cells)))

\* the types and the tickers of the canonical rows
buy == <<"b", "u", "y">>
deposit == <<"d", "e", "p", "o", "s", "i", "t">>
BTC == <<"B", "T", "C">>
XRP == <<"X", "R", "P">>
USD == <<"U", "S", "D">>
BNB == <<"B", "N", "B">>

\* the rows of a canonical file: ISO timestamps, lower-case types, upper-case tickers,
\* numbers; quote_asset is empty for deposits
CanonicalRows ==
    {[timestamp |-> isoformat(date), type |-> type, base_asset |-> base, base_amount |-> 3,
      quote_asset |-> IF type = buy THEN USD ELSE <<>>,
      quote_amount |-> IF type = buy THEN 60 ELSE 0,
      fee_amount |-> 1, fee_asset |-> fee, notes |-> notes] :
        date \in {[year |-> 2023, month |-> 12, day |-> 15], [year |-> 2024, month |-> 1, day |-> 5]},
        type \in {buy, deposit},
        base \in {BTC, XRP}, fee \in {USD, BNB}, notes \in {<<"n">>, <<>>}}

\* the canonical files: the rows are in the order the normalizer leaves them in
CanonicalFiles ==
    {file \in UNION {[1..n -> CanonicalRows] : n \in 1..MaxCanonicalRows} :
        \A k \in 1..(Len(file) - 1) : ~RowLess(file[k + 1], file[k])}

\* the exchanges and what their mapping declares for fee_asset ("None": nothing);
\* "auto" has the empty mapping (lines 54-57)
NormalizerExchanges ==
    {[exchange |-> "auto", mapping |-> [fee_asset |-> "None"]],
     [exchange |-> "binance", mapping |-> [fee_asset |-> "None"]],
     [exchange |-> "binance", mapping |-> [fee_asset |-> "Fee Coin"]],
     [exchange |-> "kraken", mapping |-> [fee_asset |-> "None"]],
     [exchange |-> "kraken", mapping |-> [fee_asset |-> "fee"]]}

\* normalize_csv(input_file, exchange, output_file)
Renormalize ==
    /\ pc = "normalize_csv"
    /\ Returns("normalize_csv",
               normalize_rows(call_args.file, call_args.exchange, call_args.mapping))

InitRenormalize ==
    \E file \in CanonicalFiles : \E e \in NormalizerExchanges :
       Calling("normalize_csv", [function |-> "normalize_csv", file |-> file,
                                 exchange |-> e.exchange, mapping |-> e.mapping])

NextRenormalize == Renormalize

SpecRenormalize == InitRenormalize /\ [][NextRenormalize]_vars

(***************************************************************************)
(* Claims about the normalization of a canonical file (SpecRenormalize)    *)
(***************************************************************************)

\* C21: running normalize_csv without remove_duplicates on a file that is already in
\* canonical form produces a file equal to its input, with the same rows in the same
\* order and the same values in all nine columns.
C21_Idempotence ==
    HasReturned("normalize_csv") => call_result.result = call_args.file

\* the file is reproduced when the exchange maps fee_asset and has no pair column
C21_IdempotenceWhenMapped ==
    (HasReturned("normalize_csv") /\ call_args.mapping.fee_asset # "None" /\
     call_args.exchange \notin exchange_pairs) =>
        call_result.result = call_args.file

\* whatever the exchange, the rows keep their order and all cells but those of
\* base_asset, quote_asset and fee_asset
C21_OtherColumnsKept ==
    HasReturned("normalize_csv") =>
        /\ Len(call_result.result) = Len(call_args.file)
        /\ \A k \in 1..Len(call_args.file) :
              \A c \in {"timestamp", "type", "base_amount", "quote_amount", "fee_amount", "notes"} :
                 call_result.result[k][c] = call_args.file[k][c]

\* under "auto" a fee_asset of BNB on a USD trade has become USD
C21_FeeAssetOverwritten ==
    /\ HasReturned("normalize_csv")
    /\ call_args.exchange = "auto"
    /\ Len(call_args.file) = 1
    /\ call_args.file[1].fee_asset = BNB
    /\ call_args.file[1].quote_asset = USD
    /\ call_result.result[1].fee_asset = USD

\* under "kraken" the base asset XRP has become RP and the quote asset is gone
C21_PairReparsed ==
    /\ HasReturned("normalize_csv")
    /\ call_args.exchange = "kraken"
    /\ Len(call_args.file) = 1
    /\ call_args.file[1].base_asset = XRP
    /\ call_args.file[1].quote_asset = USD
    /\ call_result.result[1].base_asset = <<"R", "P">>
    /\ call_result.result[1].quote_asset = <<>>

====
